---- MODULE Spec2Model ----
(***************************************************************************)
(* Restart Loop Guard (src/AutomationZ_Restart_Loop_Guard/app/main.py).    *)
(*                                                                         *)
(* The guard keeps four files (attempt ledger, lock marker, incident       *)
(* record, audit log) and evaluates them in App.refresh_status.  The       *)
(* handlers of the dashboard buttons are the operations:                   *)
(*   "Record Start Attempt" -> refresh_status(record=True)                 *)
(*   "Analyze Only"         -> refresh_status(record=False)                *)
(*   "Unlock"               -> unlock                                      *)
(*   "Clear History"        -> clear_history                               *)
(* Each handler runs to completion on the Tk main loop, so one action      *)
(* models one whole handler.  The clock (_now_ts) is an input of every     *)
(* handler that calls refresh_status; it is read as non-decreasing.        *)
(* Audit-log lines are modelled without their wall-clock prefix.           *)
(***************************************************************************)
EXTENDS Integers, Sequences, FiniteSets, TLC

\* ---------------------------------------------------------------- bounds
MaxM == 3
MaxW == 2
MaxTime == 3
MaxLog == 5
RunCap == 4

\* The configuration and the clock readings of the two concrete scenarios of
\* the specification (section 8): max_attempts=3, window=300.
ScenarioMax == 3
ScenarioWindow == 300
ScenarioTimes == {0, 50, 100, 120, 400}

\* The notify blocks: disabled (the default configuration), and enabled with
\* an empty webhook, a blank one (white space only) and a URL.
NotifyOff == [enabled |-> FALSE, discord_webhook_url |-> ""]
NotifyOn(u) == [enabled |-> TRUE, discord_webhook_url |-> u]
Notifies == {NotifyOff, NotifyOn(""), NotifyOn(" "), NotifyOn("https://hook")}

\* The configurations tried: every threshold and window up to the bounds with
\* notification off and on, and the scenario configuration with every notify
\* block.
Configs ==
    { [max_attempts |-> m, time_window_seconds |-> w, notify |-> n] :
         m \in 1 .. MaxM, w \in 1 .. MaxW,
         n \in {NotifyOff, NotifyOn("https://hook")} } \cup
    { [max_attempts |-> ScenarioMax, time_window_seconds |-> ScenarioWindow,
       notify |-> n] : n \in Notifies }

\* The number of audit-log lines followed under configuration c: MaxLog, and
\* two more with threshold 1, the shortest window and notification enabled, so
\* that a lock transition with its notification, an unlock and a second such
\* transition fit (seven lines).
LogCap(c) ==
    IF c.max_attempts = 1 /\ c.time_window_seconds = 1 /\ c.notify.enabled
    THEN MaxLog + 2 ELSE MaxLog

\* The clock readings tried under configuration c.
Times(c) ==
    IF c.time_window_seconds = ScenarioWindow THEN ScenarioTimes ELSE 0 .. MaxTime

VARIABLES
    cfg,            \* self.cfg, the active configuration
    clock,          \* the last value _now_ts() returned
    state_file,     \* the attempt ledger as persisted (JSON list of ints)
    lock_file,      \* TRUE iff the lock marker exists
    incident_file,  \* the incident record, or NoIncident when none was written
    log_file,       \* the audit log, a sequence of lines
    posts,          \* number of outbound POSTs attempted so far
    status,         \* the Status shown to the caller (badge and labels)
    last,           \* the last handler that ran and what it reported
    run,            \* times of the recordAttempt calls made in a row from an
                    \* unlocked state with an empty ledger
    pruned,         \* timestamps that window pruning has dropped so far
    incident_writes,\* number of times the incident record was written
    pc,             \* interleaved transactions: where each one stands
    loc,            \* interleaved transactions: the locals of each one
    prior,          \* interleaved transactions: the ledger they started from
    state_json,     \* the ledger file when its content may be anything
    exc,            \* the exception that escaped the last handler, or "none"
    config_file,    \* the configuration file (CONFIG_FILE)
    var_max,        \* the text of the "Max attempts" entry
    var_window,     \* the text of the "Window (sec)" entry
    var_backoff,    \* the text of the "Backoff list" entry, as the pieces
                    \* between its commas
    var_notify_enabled, \* the "Discord notify" check box
    var_webhook,    \* the text of the "Webhook URL" entry
    failed_writes,  \* the storage writes that failed in the last handler
    tail_log,       \* the audit log as text: whether the file exists, and the
                    \* length of each of its lines
    include_last_lines, \* notify.include_last_lines
    snippet,        \* the log tail of the last notification message
    tools_json,     \* the launcher's tools.json (CONFIG_PATH)
    tools_raw,      \* self.tools_raw["tools"]: the tool dicts the launcher holds
    tools,          \* self.tools, the parsed tool list of the main window
    win,            \* TRUE iff the Manage Tools dialog is open
    data,           \* data["tools"], the list the dialog edits
    sel_idx,        \* the row selected in the dialog, 0 when none is
    v_id,           \* the text of the dialog's "id" entry
    v_name,         \* the text of the dialog's "name" entry
    v_type,         \* the choice of the dialog's "type" box
    v_entry,        \* the text of the dialog's "entry" entry
    opened,         \* tools.json, the tool list and the tool dicts as they
                    \* were when the dialog was last opened, and the
                    \* number of times it has been opened
    procs,          \* self._procs: the process tracked under each tool id
    alive,          \* the processes that have not exited
    spawned,        \* the number of processes started so far
    latest,         \* the process started last under each tool id
    timers,         \* the number of pending after(1000, _tick_processes)
    tree_status,    \* the status column of the main window's tool list
    selection,      \* the row selected in the main window, 0 when none is
    entry_files     \* the entry paths that exist on disk

vars == <<cfg, clock, state_file, lock_file, incident_file, log_file, posts,
          status, last, run, pruned, incident_writes>>

\* The variables of the interleaved transactions, which the handlers of the
\* single dashboard leave alone.
raceVars == <<pc, loc, prior>>

\* The variables of the handlers run on a ledger file of arbitrary content.
loadVars == <<state_json, exc>>

\* The configuration file and the entries of the configuration panel.
cfgVars == <<config_file, var_max, var_window, var_backoff,
             var_notify_enabled, var_webhook>>

\* The audit log as text and the log tail of the notification message.
tailVars == <<tail_log, include_last_lines, snippet>>

\* The launcher: its tools.json, its tool lists and its Manage Tools dialog.
toolVars == <<tools_json, tools_raw, tools, win, data, sel_idx, v_id, v_name,
              v_type, v_entry, opened>>

\* The launcher: its process table, its poll timers and its tool list on screen.
procVars == <<procs, alive, spawned, latest, timers, tree_status, selection,
              entry_files>>

others == <<raceVars, loadVars, cfgVars, failed_writes, tailVars, toolVars,
            procVars>>

NoIncident == [state |-> "NONE"]

\* The two transactions that interleave, and their locals before they begin.
Procs == {"A", "B"}

NoLocals == [now |-> 0, history |-> << >>, locked |-> FALSE,
             status |-> [state |-> "NONE"], decided |-> FALSE]

RaceAtRest ==
    /\ pc = [p \in Procs |-> "idle"]
    /\ loc = [p \in Procs |-> NoLocals]
    /\ prior = << >>

\* The content of a JSON file: absent, not parsable, a JSON object, a JSON
\* number, or a JSON list of items.
Absent == [kind |-> "absent", items |-> << >>]
Unparsable == [kind |-> "unparsable", items |-> << >>]
JsonObject == [kind |-> "object", items |-> << >>]
JsonNumber == [kind |-> "number", items |-> << >>]
JsonList(items) == [kind |-> "list", items |-> items]

\* No log tail: the message has no "Last log lines" section.
NoSnippet == [attached |-> FALSE, lines |-> << >>, chars |-> 0]

\* The default of include_last_lines (lines 325 and 454).
DefaultLastLines == 40

TailAtRest ==
    /\ tail_log = [exists |-> FALSE, lines |-> << >>]
    /\ include_last_lines = DefaultLastLines
    /\ snippet = NoSnippet

LoadAtRest ==
    /\ state_json = JsonList(<< >>)
    /\ exc = "none"
    /\ failed_writes = {}
    /\ TailAtRest

\* A tool of tools.json, by the keys the launcher reads.
Tool(i, n, t, e) == [id |-> i, name |-> n, type |-> t, entry |-> e]

\* tools.json as a JSON document: an object with the list "tools".
ToolsDoc(ts) == [kind |-> "object", tools |-> ts]

\* The launcher has no tools and its Manage Tools dialog is closed.
ToolsAtRest ==
    /\ tools_json = ToolsDoc(<< >>)
    /\ tools_raw = << >>
    /\ tools = << >>
    /\ win = FALSE
    /\ data = << >>
    /\ sel_idx = 0
    /\ v_id = ""
    /\ v_name = ""
    /\ v_type = "python"
    /\ v_entry = ""
    /\ opened = [n |-> 0, file |-> ToolsDoc(<< >>), tools |-> << >>,
                 shown |-> << >>]

\* No process is tracked.
NoProcs == [i \in {} |-> 0]

\* The launcher has started nothing: its first poll is pending (line 223).
ProcAtRest ==
    /\ procs = NoProcs
    /\ alive = {}
    /\ spawned = 0
    /\ latest = NoProcs
    /\ timers = 1
    /\ tree_status = << >>
    /\ selection = 0
    /\ entry_files = {}

Max(a, b) == IF a >= b THEN a ELSE b

Range(s) == { s[i] : i \in 1 .. Len(s) }

\* ------------------------------------------------------------ pure helpers

\* Mutant of strip: the webhook text is used as typed.
strip_identity(u) == u

\* text.strip(): blank text becomes empty, white space around a text goes.
strip(u) ==
    CASE u = " " -> ""
      [] u = " 2 " -> "2"
      [] OTHER -> u

\* What a conversion does: it returns a value, or it raises.
Returned(n) == [ok |-> TRUE, val |-> n, exc |-> "none"]
Raises(e) == [ok |-> FALSE, val |-> 0, exc |-> e]

\* The decimal literals and the integers they denote.
Literals == <<"0", "1", "2", "3", "4", "5", "-1", "60", "180", "300">>
Denoted == <<0, 1, 2, 3, 4, 5, -1, 60, 180, 300>>

\* int(s) of a string: the integer s denotes when s is a decimal literal
\* (white space around it allowed), else ValueError.
int_str(s) ==
    IF \E i \in DOMAIN Literals : Literals[i] = strip(s)
    THEN Returned(Denoted[CHOOSE i \in DOMAIN Literals : Literals[i] = strip(s)])
    ELSE Raises("ValueError")

\* str(n) of an integer
str_int(n) == Literals[CHOOSE i \in DOMAIN Denoted : Denoted[i] = n]

\* A line of the audit log: the message and the number it quotes (0 if none).
LogLine(msg, n) == [msg |-> msg, n |-> n]

append_log(log, line) == Append(log, line)

\* Mutant of Windowed: the difference taken the wrong way round, which keeps
\* every entry.
Windowed_reversed(history, now, window) ==
    SelectSeq(history, LAMBDA t : t - now <= window)

\* Mutant of Windowed: the entries kept are returned newest first.
Windowed_newestfirst(history, now, window) ==
    LET kept == SelectSeq(history, LAMBDA t : now - t <= window)
    IN  [i \in 1 .. Len(kept) |-> kept[Len(kept) + 1 - i]]

\* Mutant of Windowed: an entry exactly window seconds old is dropped.
Windowed_strict(history, now, window) ==
    SelectSeq(history, LAMBDA t : now - t < window)

\* windowed = [int(t) for t in history if now - int(t) <= window]
Windowed(history, now, window) ==
    SelectSeq(history, LAMBDA t : now - t <= window)

\* Mutant of NearThreshold: only the count just below the threshold warns.
NearThreshold_exact(count, max_attempts) == count = Max(1, max_attempts - 1)

\* Mutant of NearThreshold: the boundary is not clamped to 1.
NearThreshold_noclamp(count, max_attempts) == count >= max_attempts - 1

\* count >= max(1, max_attempts - 1)
NearThreshold(count, max_attempts) == count >= Max(1, max_attempts - 1)

compute_status(c, history, now, locked) ==
    LET max_attempts == c.max_attempts
        window == c.time_window_seconds
        windowed == Windowed(history, now, window)
        count == Len(windowed)
        mk(state, message) ==
            [state |-> state, message |-> message, attempt_count |-> count,
             max_attempts |-> max_attempts, window_seconds |-> window,
             timestamps |-> windowed]
    IN  IF locked THEN mk("LOCKED", "Restart loop locked. Manual unlock required.")
        ELSE IF NearThreshold(count, max_attempts) THEN mk("WARNING", "Near threshold")
        ELSE mk("OK", "Normal")

\* The incident record without its version tag, ISO time, host identity and
\* extra context, which no operation reads back.
make_incident(c, st, now) ==
    [timestamp |-> now,
     state |-> st.state,
     message |-> st.message,
     attempt_count |-> st.attempt_count,
     max_attempts |-> st.max_attempts,
     window_seconds |-> st.window_seconds,
     attempt_timestamps |-> st.timestamps]

\* Mutant of AppendsAttempt: the lock test is the wrong way round.
AppendsAttempt_locked(record, locked) == record /\ locked

\* Mutant of AppendsAttempt: the lock is not consulted.
AppendsAttempt_always(record, locked) == record

\* Mutant of AppendsAttempt: every unlocked call appends, analyze included.
AppendsAttempt_unlocked(record, locked) == ~locked

\* if record and not locked: the attempt is appended
AppendsAttempt(record, locked) == record /\ ~locked

\* Mutant of LockTransition: the threshold must be exceeded, not reached.
LockTransition_strict(record, st, max_attempts, lockExists) ==
    record /\ Len(st.timestamps) > max_attempts /\ ~lockExists

\* Mutant of LockTransition: the warning boundary is used as the threshold.
LockTransition_early(record, st, max_attempts, lockExists) ==
    record /\ Len(st.timestamps) >= max_attempts - 1 /\ ~lockExists

\* Mutant of LockTransition: the lock file is not looked at again.
LockTransition_relock(record, st, max_attempts, lockExists) ==
    record /\ Len(st.timestamps) >= max_attempts

\* if record and (len(status.timestamps) >= max_attempts)
\*    and not self.lock_file.exists()
LockTransition(record, st, max_attempts, lockExists) ==
    record /\ Len(st.timestamps) >= max_attempts /\ ~lockExists

\* What _maybe_notify leaves: the audit log, the POST count, what became of the
\* POST ("none" when none was attempted) and whether an exception escapes.
Notified(log, nposts, post, raised) ==
    [log |-> log, posts |-> nposts, post |-> post, raised |-> raised]

\* Mutant of maybe_notify: a failed POST is tried a second time.
maybe_notify_retry(c, log, nposts, postOk) ==
    LET notify_cfg == c.notify
        webhook == strip(notify_cfg.discord_webhook_url)
    IN  IF ~notify_cfg.enabled THEN Notified(log, nposts, "none", FALSE)
        ELSE IF webhook = ""
        THEN Notified(append_log(log, LogLine("Notify enabled but webhook empty.", 0)),
                      nposts, "none", FALSE)
        ELSE IF postOk
        THEN Notified(append_log(log, LogLine("Notification sent (Discord).", 0)),
                      nposts + 1, "sent", FALSE)
        ELSE Notified(append_log(log, LogLine("Notification failed", 0)),
                      nposts + 2, "failed", FALSE)

\* Mutant of maybe_notify: post_discord is called outside the try block, so
\* its exception escapes and no failure line is written.
maybe_notify_notry(c, log, nposts, postOk) ==
    LET notify_cfg == c.notify
        webhook == strip(notify_cfg.discord_webhook_url)
    IN  IF ~notify_cfg.enabled THEN Notified(log, nposts, "none", FALSE)
        ELSE IF webhook = ""
        THEN Notified(append_log(log, LogLine("Notify enabled but webhook empty.", 0)),
                      nposts, "none", FALSE)
        ELSE IF postOk
        THEN Notified(append_log(log, LogLine("Notification sent (Discord).", 0)),
                      nposts + 1, "sent", FALSE)
        ELSE Notified(log, nposts + 1, "failed", TRUE)

\* App._maybe_notify.  postOk says whether post_discord returns (TRUE) or
\* raises (FALSE); the except clause catches what it raises.
maybe_notify(c, log, nposts, postOk) ==
    LET notify_cfg == c.notify
        webhook == strip(notify_cfg.discord_webhook_url)
    IN  IF ~notify_cfg.enabled THEN Notified(log, nposts, "none", FALSE)
        ELSE IF webhook = ""
        THEN Notified(append_log(log, LogLine("Notify enabled but webhook empty.", 0)),
                      nposts, "none", FALSE)
        ELSE IF postOk
        THEN Notified(append_log(log, LogLine("Notification sent (Discord).", 0)),
                      nposts + 1, "sent", FALSE)
        ELSE Notified(append_log(log, LogLine("Notification failed", 0)),
                      nposts + 1, "failed", FALSE)

\* Mutant of refresh_status: the Status is not computed again after the
\* marker was created, so the transition returns the unlocked classification.
refresh_status_stale(ledger, lock, incident, log, nposts, record, now, postOk) ==
    LET history == ledger
        locked == lock
        appended == AppendsAttempt(record, locked)
        history1 == IF appended THEN Append(history, now) ELSE history
        log1 == IF appended
                THEN append_log(log, LogLine("Recorded start attempt (UI).", 0))
                ELSE log
        status1 == compute_status(cfg, history1, now, locked)
        max_attempts == cfg.max_attempts
        status2 == compute_status(cfg, status1.timestamps, now, TRUE)
        log2 == append_log(log1, LogLine("LOCKED (threshold reached).",
                                         Len(status2.timestamps)))
        n == maybe_notify(cfg, log2, nposts, postOk)
    IN  IF LockTransition(record, status1, max_attempts, lock)
        THEN [state_file |-> status1.timestamps, lock_file |-> TRUE,
              incident_file |-> make_incident(cfg, status2, now),
              log_file |-> n.log, posts |-> n.posts, status |-> status1,
              incident_written |-> TRUE, post |-> n.post, raised |-> n.raised]
        ELSE [state_file |-> status1.timestamps, lock_file |-> lock,
              incident_file |-> incident,
              log_file |-> log1, posts |-> nposts, status |-> status1,
              incident_written |-> FALSE, post |-> "none", raised |-> FALSE]

\* App.refresh_status on files (ledger, lock, incident, log) and POST count:
\* the files, POST count and Status it leaves, whether it wrote the incident
\* record, what became of the POST, and whether an exception escapes it (the
\* Status is then not shown).
refresh_status(ledger, lock, incident, log, nposts, record, now, postOk) ==
    LET history == ledger
        locked == lock
        appended == AppendsAttempt(record, locked)
        history1 == IF appended THEN Append(history, now) ELSE history
        log1 == IF appended
                THEN append_log(log, LogLine("Recorded start attempt (UI).", 0))
                ELSE log
        status1 == compute_status(cfg, history1, now, locked)
        max_attempts == cfg.max_attempts
        status2 == compute_status(cfg, status1.timestamps, now, TRUE)
        log2 == append_log(log1, LogLine("LOCKED (threshold reached).",
                                         Len(status2.timestamps)))
        n == maybe_notify(cfg, log2, nposts, postOk)
    IN  IF LockTransition(record, status1, max_attempts, lock)
        THEN [state_file |-> status1.timestamps, lock_file |-> TRUE,
              incident_file |-> make_incident(cfg, status2, now),
              log_file |-> n.log, posts |-> n.posts, status |-> status2,
              incident_written |-> TRUE, post |-> n.post, raised |-> n.raised]
        ELSE [state_file |-> status1.timestamps, lock_file |-> lock,
              incident_file |-> incident,
              log_file |-> log1, posts |-> nposts, status |-> status1,
              incident_written |-> FALSE, post |-> "none", raised |-> FALSE]

\* ------------------------------------------------------------------ state

\* The configuration file as a JSON document holding configuration c.
ConfigDoc(c) == [kind |-> "object", value |-> c]

\* backoff_seconds where the configuration has none (lines 312-317, 342)
DefaultBackoff == <<0, 60, 180, 300>>

\* ",".join(str(x) for x in backoff), as the pieces between the commas
join_backoff(backoff) ==
    IF backoff = << >> THEN <<"">>
    ELSE [i \in 1 .. Len(backoff) |-> str_int(backoff[i])]

\* The configuration file and the panel as _load_cfg leaves them for the
\* active configuration; the handlers of the dashboard leave them alone.
CfgAtRest ==
    /\ config_file = ConfigDoc(cfg)
    /\ var_max = str_int(cfg.max_attempts)
    /\ var_window = str_int(cfg.time_window_seconds)
    /\ var_backoff = join_backoff(DefaultBackoff)
    /\ var_notify_enabled = cfg.notify.enabled
    /\ var_webhook = cfg.notify.discord_webhook_url

\* What the last handler was (op), what it reported, whether the handler
\* before it was the same one (again), and what became of the POST it made.
Last(op, report) ==
    [op |-> op, report |-> report, again |-> last.op = op, post |-> "none"]

\* What a handler that ends in refresh_status reports: the Status, or the
\* exception that escaped.
Shown(r, report) == IF r.raised THEN "Raised" ELSE report

Init ==
    /\ cfg \in Configs
    /\ clock = 0
    /\ state_file = << >>
    /\ lock_file = FALSE
    /\ incident_file = NoIncident
    /\ log_file = << >>
    /\ posts = 0
    /\ status = compute_status(cfg, << >>, 0, FALSE)
    /\ last = [op |-> "init", report |-> "Status", again |-> FALSE, post |-> "none"]
    /\ run = << >>
    /\ pruned = {}
    /\ incident_writes = 0
    /\ RaceAtRest
    /\ LoadAtRest
    /\ CfgAtRest
    /\ ToolsAtRest
    /\ ProcAtRest

\* The files, POST count and Status become those of result r; the entries of
\* the ledger that r no longer holds are remembered in pruned.
Becomes(r) ==
    /\ Len(r.log_file) <= LogCap(cfg)
    /\ state_file' = r.state_file
    /\ lock_file' = r.lock_file
    /\ incident_file' = r.incident_file
    /\ log_file' = r.log_file
    /\ posts' = r.posts
    /\ status' = IF r.raised THEN status ELSE r.status
    /\ incident_writes' = incident_writes + (IF r.incident_written THEN 1 ELSE 0)

\* "Record Start Attempt": refresh_status(record=True)
RecordAttempt ==
    \E now \in Times(cfg), postOk \in BOOLEAN :
        LET r == refresh_status(state_file, lock_file, incident_file,
                                log_file, posts, TRUE, now, postOk)
        IN
        /\ now >= clock
        /\ clock' = now
        /\ Becomes(r)
        /\ pruned' = pruned \cup (Range(state_file) \ Range(state_file'))
        /\ last' = [Last("record", Shown(r, "Status")) EXCEPT !.post = r.post]
        /\ run' = IF (run # << >> \/ (state_file = << >> /\ ~lock_file))
                     /\ Len(run) < RunCap
                  THEN Append(run, now) ELSE << >>
        /\ UNCHANGED <<cfg, others>>

\* "Analyze Only": refresh_status(record=False)
Analyze ==
    \E now \in Times(cfg) :
        /\ now >= clock
        /\ clock' = now
        /\ Becomes(refresh_status(state_file, lock_file, incident_file,
                                  log_file, posts, FALSE, now, TRUE))
        /\ pruned' = pruned \cup (Range(state_file) \ Range(state_file'))
        /\ last' = Last("analyze", "Status")
        /\ run' = << >>
        /\ UNCHANGED <<cfg, others>>

\* Mutant of UnlockAbsent: the removal is logged although nothing was removed.
UnlockAbsent_logs ==
    /\ ~lock_file
    /\ Len(log_file) < MaxLog
    /\ log_file' = append_log(log_file, LogLine("Lock removed (UI).", 0))
    /\ last' = Last("unlock", "NoOp")
    /\ run' = << >>
    /\ UNCHANGED <<cfg, clock, state_file, lock_file, incident_file,
                   posts, status, pruned, incident_writes, others>>

\* App.unlock when no lock file is present: "No lock file present."
UnlockAbsent ==
    /\ ~lock_file
    /\ last' = Last("unlock", "NoOp")
    /\ run' = << >>
    /\ UNCHANGED <<cfg, clock, state_file, lock_file, incident_file,
                   log_file, posts, status, pruned, incident_writes, others>>

\* App.unlock when the lock file is present: unlink, log, refresh_status(False)
UnlockPresent ==
    /\ lock_file
    /\ \E now \in Times(cfg) :
        /\ now >= clock
        /\ clock' = now
        /\ Becomes(refresh_status(state_file, FALSE, incident_file,
                      append_log(log_file, LogLine("Lock removed (UI).", 0)),
                      posts, FALSE, now, TRUE))
        /\ pruned' = pruned \cup (Range(state_file) \ Range(state_file'))
        /\ last' = Last("unlock", "Removed")
        /\ run' = << >>
        /\ UNCHANGED <<cfg, others>>

\* App.unlock
unlock == UnlockAbsent \/ UnlockPresent

\* App.clear_history when the askyesno dialog is answered "no"
ClearCancelled ==
    /\ last' = Last("clear", "Cancelled")
    /\ run' = << >>
    /\ UNCHANGED <<cfg, clock, state_file, lock_file, incident_file,
                   log_file, posts, status, pruned, incident_writes, others>>

\* Mutant of ClearConfirmed: clearing the history also removes the lock.
ClearConfirmed_unlocks ==
    \E now \in Times(cfg) :
        /\ now >= clock
        /\ clock' = now
        /\ Becomes(refresh_status(<< >>, FALSE, incident_file,
                      append_log(log_file, LogLine("History cleared (UI).", 0)),
                      posts, FALSE, now, TRUE))
        /\ last' = Last("clear", "Cleared")
        /\ run' = << >>
        /\ UNCHANGED <<cfg, pruned, others>>

\* Mutant of ClearConfirmed: the history is kept while the lock exists.
ClearConfirmed_keepsLocked ==
    \E now \in Times(cfg) :
        /\ now >= clock
        /\ clock' = now
        /\ Becomes(refresh_status(IF lock_file THEN state_file ELSE << >>,
                      lock_file, incident_file,
                      append_log(log_file, LogLine("History cleared (UI).", 0)),
                      posts, FALSE, now, TRUE))
        /\ last' = Last("clear", "Cleared")
        /\ run' = << >>
        /\ UNCHANGED <<cfg, pruned, others>>

\* App.clear_history when confirmed: unlink ledger, log, refresh_status(False)
ClearConfirmed ==
    \E now \in Times(cfg) :
        /\ now >= clock
        /\ clock' = now
        /\ Becomes(refresh_status(<< >>, lock_file, incident_file,
                      append_log(log_file, LogLine("History cleared (UI).", 0)),
                      posts, FALSE, now, TRUE))
        /\ last' = Last("clear", "Cleared")
        /\ run' = << >>
        /\ UNCHANGED <<cfg, pruned, others>>

\* App.clear_history
clear_history == ClearCancelled \/ ClearConfirmed

Next == RecordAttempt \/ Analyze \/ unlock \/ clear_history

Spec == Init /\ [][Next]_vars

\* ------------------------------------------- interleaved record transactions
(* Two recordAttempt transactions (two guard processes on the same files, no *)
(* mutual exclusion between them) run refresh_status(record=True) one file   *)
(* operation at a time.                                                      *)

MaxPrior == 2

\* The ledgers the transactions may find: up to MaxPrior attempts at time 0.
PriorLedgers == { [i \in 1 .. n |-> 0] : n \in 0 .. MaxPrior }

\* Mutant of touch: the marker is not created.
touch_noop(exists) == exists

\* self.lock_file.touch(): the marker exists afterwards.
touch(exists) == TRUE

InitRace ==
    /\ cfg \in Configs
    /\ clock = 0
    /\ state_file \in PriorLedgers
    /\ prior = state_file
    /\ lock_file = FALSE
    /\ incident_file = NoIncident
    /\ log_file = << >>
    /\ posts = 0
    /\ status = compute_status(cfg, state_file, 0, FALSE)
    /\ last = [op |-> "init", report |-> "Status", again |-> FALSE, post |-> "none"]
    /\ run = << >>
    /\ pruned = {}
    /\ incident_writes = 0
    /\ pc = [p \in Procs |-> "idle"]
    /\ loc = [p \in Procs |-> NoLocals]
    /\ LoadAtRest
    /\ CfgAtRest
    /\ ToolsAtRest
    /\ ProcAtRest

\* What a step of a transaction leaves alone besides the files.
raceFrame == <<cfg, status, last, run, pruned, prior, loadVars, cfgVars,
               failed_writes, tailVars, toolVars,
                   procVars>>

Goto(p, label) == pc' = [pc EXCEPT ![p] = label]

\* now = _now_ts(); history = load_json(self.state_file, default=[])
Begin(p) ==
    /\ pc[p] = "idle"
    /\ \E now \in Times(cfg) :
        /\ now >= clock
        /\ clock' = now
        /\ loc' = [loc EXCEPT ![p].now = now, ![p].history = state_file]
    /\ Goto(p, "exists")
    /\ UNCHANGED <<state_file, lock_file, incident_file, log_file, posts,
                   incident_writes, raceFrame>>

\* locked = self.lock_file.exists(); if record and not locked: ...
CheckLock(p) ==
    /\ pc[p] = "exists"
    /\ loc' = [loc EXCEPT ![p].locked = lock_file]
    /\ Goto(p, IF AppendsAttempt(TRUE, lock_file) THEN "append" ELSE "evaluate")
    /\ UNCHANGED <<clock, state_file, lock_file, incident_file, log_file, posts,
                   incident_writes, raceFrame>>

\* history.append(now); save_json(self.state_file, history)
SaveAppended(p) ==
    /\ pc[p] = "append"
    /\ loc' = [loc EXCEPT ![p].history = Append(loc[p].history, loc[p].now)]
    /\ state_file' = Append(loc[p].history, loc[p].now)
    /\ Goto(p, "log_recorded")
    /\ UNCHANGED <<clock, lock_file, incident_file, log_file, posts,
                   incident_writes, raceFrame>>

\* append_log(self.log_file, "Recorded start attempt (UI).")
LogRecorded(p) ==
    /\ pc[p] = "log_recorded"
    /\ log_file' = append_log(log_file, LogLine("Recorded start attempt (UI).", 0))
    /\ Goto(p, "evaluate")
    /\ UNCHANGED <<clock, state_file, lock_file, incident_file, posts,
                   incident_writes, loc, raceFrame>>

\* status = compute_status(...); save_json(self.state_file, status.timestamps)
Evaluate(p) ==
    /\ pc[p] = "evaluate"
    /\ LET st == compute_status(cfg, loc[p].history, loc[p].now, loc[p].locked)
       IN  /\ loc' = [loc EXCEPT ![p].status = st]
           /\ state_file' = st.timestamps
    /\ Goto(p, "decide")
    /\ UNCHANGED <<clock, lock_file, incident_file, log_file, posts,
                   incident_writes, raceFrame>>

\* Mutant of Decide: the notification is made first, before the marker is
\* created and the incident record written.
Decide_notifyfirst(p) ==
    /\ pc[p] = "decide"
    /\ LET yes == LockTransition(TRUE, loc[p].status, cfg.max_attempts, lock_file)
       IN  /\ loc' = [loc EXCEPT ![p].decided = yes]
           /\ Goto(p, IF yes THEN "notify" ELSE "done")
    /\ UNCHANGED <<clock, state_file, lock_file, incident_file, log_file, posts,
                   incident_writes, raceFrame>>

\* if record and len(status.timestamps) >= max_attempts
\*    and not self.lock_file.exists()
Decide(p) ==
    /\ pc[p] = "decide"
    /\ LET yes == LockTransition(TRUE, loc[p].status, cfg.max_attempts, lock_file)
       IN  /\ loc' = [loc EXCEPT ![p].decided = yes]
           /\ Goto(p, IF yes THEN "touch" ELSE "done")
    /\ UNCHANGED <<clock, state_file, lock_file, incident_file, log_file, posts,
                   incident_writes, raceFrame>>

\* self.lock_file.touch()
Touch(p) ==
    /\ pc[p] = "touch"
    /\ lock_file' = touch(lock_file)
    /\ Goto(p, "log_locked")
    /\ UNCHANGED <<clock, state_file, incident_file, log_file, posts,
                   incident_writes, loc, raceFrame>>

\* status = compute_status(self.cfg, status.timestamps, now, True)
\* append_log(self.log_file, "LOCKED (threshold reached). ...")
LogLocked(p) ==
    /\ pc[p] = "log_locked"
    /\ LET st == compute_status(cfg, loc[p].status.timestamps, loc[p].now, TRUE)
       IN  /\ loc' = [loc EXCEPT ![p].status = st]
           /\ log_file' = append_log(log_file,
                              LogLine("LOCKED (threshold reached).", Len(st.timestamps)))
    /\ Goto(p, "incident")
    /\ UNCHANGED <<clock, state_file, lock_file, incident_file, posts,
                   incident_writes, raceFrame>>

\* save_json(self.incident_file, make_incident(self.cfg, status, now))
WriteIncident(p) ==
    /\ pc[p] = "incident"
    /\ incident_file' = make_incident(cfg, loc[p].status, loc[p].now)
    /\ incident_writes' = incident_writes + 1
    /\ Goto(p, "notify")
    /\ UNCHANGED <<clock, state_file, lock_file, log_file, posts, loc, raceFrame>>

\* self._maybe_notify(status)
Notify(p) ==
    /\ pc[p] = "notify"
    /\ \E postOk \in BOOLEAN :
        LET n == maybe_notify(cfg, log_file, posts, postOk)
        IN  /\ log_file' = n.log
            /\ posts' = n.posts
    /\ Goto(p, "done")
    /\ UNCHANGED <<clock, state_file, lock_file, incident_file,
                   incident_writes, loc, raceFrame>>

NextRace ==
    \E p \in Procs :
        \/ Begin(p) \/ CheckLock(p) \/ SaveAppended(p) \/ LogRecorded(p)
        \/ Evaluate(p) \/ Decide(p) \/ Touch(p) \/ LogLocked(p)
        \/ WriteIncident(p) \/ Notify(p)

allVars == <<vars, others>>

SpecRace == InitRace /\ [][NextRace]_allVars

\* --------------------------------------- a ledger file of arbitrary content
(* The handlers that end in refresh_status, run on a ledger file that holds  *)
(* whatever was put there (state_json), not only what the guard itself       *)
(* writes.                                                                   *)

MaxItems == 2

\* The items of a JSON list: an integer, a number with a fraction (val is its
\* whole part), a string, null.
JInt(n) == [type |-> "int", val |-> n, text |-> ""]
JFloat(n) == [type |-> "float", val |-> n, text |-> ""]
JStr(t) == [type |-> "str", val |-> 0, text |-> t]
JNull == [type |-> "null", val |-> 0, text |-> ""]

JsonItems == {JInt(0), JInt(1), JFloat(1), JStr("1"), JStr("abc"), JNull}

\* The contents the ledger file is tried with.
LedgerContents ==
    {Absent, Unparsable, JsonObject, JsonNumber} \cup
    { JsonList(items) :
        items \in UNION { [1 .. n -> JsonItems] : n \in 0 .. MaxItems } }

\* load_json(path, default): the parsed content, or default when the file is
\* absent or json.loads raises.
load_json(file, default) ==
    IF file.kind = "absent" THEN default
    ELSE IF file.kind = "unparsable" THEN default
    ELSE file

\* isinstance(history, list), else []
AsList(loaded) == IF loaded.kind = "list" THEN loaded.items ELSE << >>

\* int(t) of a JSON item: an integer is itself, a fraction is truncated, a
\* string is parsed, None raises TypeError.
int_item(t) ==
    CASE t.type = "int" -> Returned(t.val)
      [] t.type = "float" -> Returned(t.val)
      [] t.type = "str" -> int_str(t.text)
      [] OTHER -> Raises("TypeError")

\* App.refresh_status from the ledger file as found: load_json and the list
\* test (lines 375-377), the append and save (382-384), then compute_status,
\* whose int(t) raises on the first item that is no number (line 147); the
\* exception escapes refresh_status with the files as they are by then.
refresh_status_file(file, lock, incident, log, nposts, record, now, postOk) ==
    LET history == AsList(load_json(file, JsonList(<< >>)))
        locked == lock
        appended == AppendsAttempt(record, locked)
        history1 == IF appended THEN Append(history, JInt(now)) ELSE history
        bad == { i \in 1 .. Len(history) : ~int_item(history[i]).ok }
        first == CHOOSE i \in bad : \A j \in bad : i <= j
        ints == [i \in 1 .. Len(history) |-> int_item(history[i]).val]
        r == refresh_status(ints, lock, incident, log, nposts, record, now, postOk)
    IN  IF bad # {}
        THEN [state_json |-> IF appended THEN JsonList(history1) ELSE file,
              lock_file |-> lock, incident_file |-> incident,
              log_file |-> IF appended
                           THEN append_log(log, LogLine("Recorded start attempt (UI).", 0))
                           ELSE log,
              posts |-> nposts, status |-> status,
              exc |-> int_item(history[first]).exc]
        ELSE [state_json |-> JsonList([i \in 1 .. Len(r.state_file) |->
                                          JInt(r.state_file[i])]),
              lock_file |-> r.lock_file, incident_file |-> r.incident_file,
              log_file |-> r.log_file, posts |-> r.posts,
              status |-> IF r.raised THEN status ELSE r.status,
              exc |-> IF r.raised THEN "Exception" ELSE "none"]

\* The guard starts on a ledger file of any content, locked or not.
InitLoad ==
    /\ cfg \in Configs
    /\ clock = 0
    /\ state_json \in LedgerContents
    /\ exc = "none"
    /\ failed_writes = {}
    /\ TailAtRest
    /\ state_file = << >>
    /\ lock_file \in BOOLEAN
    /\ incident_file = NoIncident
    /\ log_file = << >>
    /\ posts = 0
    /\ status = compute_status(cfg, << >>, 0, lock_file)
    /\ last = [op |-> "init", report |-> "Status", again |-> FALSE, post |-> "none"]
    /\ run = << >>
    /\ pruned = {}
    /\ incident_writes = 0
    /\ RaceAtRest
    /\ CfgAtRest
    /\ ToolsAtRest
    /\ ProcAtRest

\* The files, POST count, Status and escaped exception become those of r.
BecomesFile(r) ==
    /\ Len(r.log_file) <= MaxLog
    /\ state_json' = r.state_json
    /\ lock_file' = r.lock_file
    /\ incident_file' = r.incident_file
    /\ log_file' = r.log_file
    /\ posts' = r.posts
    /\ status' = r.status
    /\ exc' = r.exc

\* "Record Start Attempt" on the ledger file as found
RecordAttemptFile ==
    \E now \in Times(cfg), postOk \in BOOLEAN :
        /\ now >= clock
        /\ clock' = now
        /\ BecomesFile(refresh_status_file(state_json, lock_file, incident_file,
                                           log_file, posts, TRUE, now, postOk))
        /\ last' = Last("record", IF exc' = "none" THEN "Status" ELSE "Raised")
        /\ UNCHANGED <<cfg, state_file, run, pruned, incident_writes, raceVars,
                       cfgVars, failed_writes, tailVars, toolVars,
                   procVars>>

\* "Analyze Only" on the ledger file as found
AnalyzeFile ==
    \E now \in Times(cfg) :
        /\ now >= clock
        /\ clock' = now
        /\ BecomesFile(refresh_status_file(state_json, lock_file, incident_file,
                                           log_file, posts, FALSE, now, TRUE))
        /\ last' = Last("analyze", IF exc' = "none" THEN "Status" ELSE "Raised")
        /\ UNCHANGED <<cfg, state_file, run, pruned, incident_writes, raceVars,
                       cfgVars, failed_writes, tailVars, toolVars,
                   procVars>>

NextLoad == RecordAttemptFile \/ AnalyzeFile

SpecLoad == InitLoad /\ [][NextLoad]_allVars

\* ------------------------------------------------- the configuration panel
(* The number entries of the configuration panel are edited, "Save Config"  *)
(* runs save_cfg and "Reload Config" runs _load_cfg.  The notify entries     *)
(* stay as _load_cfg filled them.                                            *)

\* The built-in configuration of _load_cfg (lines 309-332).
DefaultConfig ==
    [max_attempts |-> ScenarioMax, time_window_seconds |-> ScenarioWindow,
     backoff_seconds |-> DefaultBackoff, notify |-> NotifyOff]

\* A configuration file that is absent, and what load_json returns for it.
ConfigAbsent == [kind |-> "absent", value |-> DefaultConfig]
EmptyDict == [kind |-> "empty", value |-> DefaultConfig]

\* The configuration files the guard may start from.
PriorConfigFiles ==
    {ConfigAbsent, ConfigDoc(DefaultConfig),
     ConfigDoc([max_attempts |-> 1, time_window_seconds |-> 2,
                backoff_seconds |-> << >>, notify |-> NotifyOn("https://hook")])}

\* The texts typed into the "Max attempts" and "Window (sec)" entries.
NumberTexts == {" 2 ", "0", "2.5"}

\* The texts typed into the "Backoff list" entry, as the pieces between
\* their commas: "", "1", "x", "1,,1" and "1,x".
BackoffTexts == {<<"">>, <<"1">>, <<"x">>, <<"1", "", "1">>, <<"1", "x">>}

\* App._load_cfg on configuration file `file`: the active configuration, the
\* file and the entries it leaves.
load_cfg(file) ==
    LET loaded == load_json(file, EmptyDict)
        defaulted == loaded.kind # "object"
        c == IF defaulted THEN DefaultConfig ELSE loaded.value
    IN  [cfg |-> c,
         config_file |-> IF defaulted THEN ConfigDoc(c) ELSE file,
         var_max |-> str_int(c.max_attempts),
         var_window |-> str_int(c.time_window_seconds),
         var_backoff |-> join_backoff(c.backoff_seconds),
         var_notify_enabled |-> c.notify.enabled,
         var_webhook |-> c.notify.discord_webhook_url]

\* [int(x.strip()) for x in text.split(",") if x.strip() != ""]
parse_backoff(pieces) ==
    LET kept == SelectSeq(pieces, LAMBDA x : strip(x) # "")
    IN  [i \in 1 .. Len(kept) |-> int_str(strip(kept[i]))]

\* Mutant of save_cfg: each value is stored as soon as it is parsed, so a
\* later entry that does not parse leaves the earlier ones changed.
save_cfg_eager(c, file, vmax, vwindow, vbackoff, venabled, vwebhook) ==
    LET max_a == int_str(strip(vmax))
        win_s == int_str(strip(vwindow))
        backoff == parse_backoff(vbackoff)
        c1 == IF max_a.ok THEN [c EXCEPT !.max_attempts = max_a.val] ELSE c
        c2 == IF max_a.ok /\ win_s.ok
              THEN [c1 EXCEPT !.time_window_seconds = win_s.val] ELSE c1
        c3 == [c2 EXCEPT !.backoff_seconds =
                            [i \in 1 .. Len(backoff) |-> backoff[i].val],
                         !.notify = [enabled |-> venabled,
                                     discord_webhook_url |-> strip(vwebhook)]]
    IN  IF max_a.ok /\ win_s.ok /\ \A i \in 1 .. Len(backoff) : backoff[i].ok
        THEN [cfg |-> c3, config_file |-> ConfigDoc(c3), report |-> "Saved"]
        ELSE [cfg |-> c2, config_file |-> file, report |-> "Save failed"]

\* App.save_cfg on the entries: the three values are parsed first (lines
\* 353-355); if one raises, nothing has been assigned and "Save failed" is
\* shown; else the configuration is updated and written (359-369).
save_cfg(c, file, vmax, vwindow, vbackoff, venabled, vwebhook) ==
    LET max_a == int_str(strip(vmax))
        win_s == int_str(strip(vwindow))
        backoff == parse_backoff(vbackoff)
        c1 == [c EXCEPT !.max_attempts = max_a.val,
                        !.time_window_seconds = win_s.val,
                        !.backoff_seconds =
                            [i \in 1 .. Len(backoff) |-> backoff[i].val],
                        !.notify = [enabled |-> venabled,
                                    discord_webhook_url |-> strip(vwebhook)]]
    IN  IF max_a.ok /\ win_s.ok /\ \A i \in 1 .. Len(backoff) : backoff[i].ok
        THEN [cfg |-> c1, config_file |-> ConfigDoc(c1), report |-> "Saved"]
        ELSE [cfg |-> c, config_file |-> file, report |-> "Save failed"]

\* What the configuration handlers leave alone.
guardFrame == <<clock, state_file, lock_file, incident_file, log_file, posts,
                status, run, pruned, incident_writes, raceVars, loadVars,
                failed_writes, tailVars, toolVars,
                   procVars>>

\* App.__init__: _load_cfg(silent=True) on the configuration file found.
InitCfg ==
    /\ \E file \in PriorConfigFiles :
         LET r == load_cfg(file)
         IN  /\ cfg = r.cfg
             /\ config_file = r.config_file
             /\ var_max = r.var_max
             /\ var_window = r.var_window
             /\ var_backoff = r.var_backoff
             /\ var_notify_enabled = r.var_notify_enabled
             /\ var_webhook = r.var_webhook
    /\ clock = 0
    /\ state_file = << >>
    /\ lock_file = FALSE
    /\ incident_file = NoIncident
    /\ log_file = << >>
    /\ posts = 0
    /\ status = compute_status(cfg, << >>, 0, FALSE)
    /\ last = [op |-> "init", report |-> "Status", again |-> FALSE, post |-> "none"]
    /\ run = << >>
    /\ pruned = {}
    /\ incident_writes = 0
    /\ RaceAtRest
    /\ LoadAtRest
    /\ ToolsAtRest
    /\ ProcAtRest

\* The "Max attempts" entry is edited.
EditMax ==
    /\ \E t \in NumberTexts : var_max' = t
    /\ last' = Last("edit", "Max attempts")
    /\ UNCHANGED <<cfg, config_file, var_window, var_backoff,
                   var_notify_enabled, var_webhook, guardFrame>>

\* The "Window (sec)" entry is edited.
EditWindow ==
    /\ \E t \in NumberTexts : var_window' = t
    /\ last' = Last("edit", "Window (sec)")
    /\ UNCHANGED <<cfg, config_file, var_max, var_backoff,
                   var_notify_enabled, var_webhook, guardFrame>>

\* The "Backoff list" entry is edited.
EditBackoff ==
    /\ \E t \in BackoffTexts : var_backoff' = t
    /\ last' = Last("edit", "Backoff list")
    /\ UNCHANGED <<cfg, config_file, var_max, var_window,
                   var_notify_enabled, var_webhook, guardFrame>>

\* "Save Config": App.save_cfg
SaveConfig ==
    LET r == save_cfg(cfg, config_file, var_max, var_window, var_backoff,
                      var_notify_enabled, var_webhook)
    IN  /\ cfg' = r.cfg
        /\ config_file' = r.config_file
        /\ last' = Last("save_cfg", r.report)
        /\ UNCHANGED <<var_max, var_window, var_backoff, var_notify_enabled,
                       var_webhook, guardFrame>>

\* "Reload Config": App._load_cfg
ReloadConfig ==
    LET r == load_cfg(config_file)
    IN  /\ cfg' = r.cfg
        /\ config_file' = r.config_file
        /\ var_max' = r.var_max
        /\ var_window' = r.var_window
        /\ var_backoff' = r.var_backoff
        /\ var_notify_enabled' = r.var_notify_enabled
        /\ var_webhook' = r.var_webhook
        /\ last' = Last("load_cfg", "Config loaded")
        /\ UNCHANGED guardFrame

NextCfg ==
    \/ EditMax \/ EditWindow \/ EditBackoff
    \/ SaveConfig \/ ReloadConfig

SpecCfg == InitCfg /\ [][NextCfg]_allVars

\* ------------------------------------------------ storage writes that fail
(* The handlers of the dashboard where a storage write may fail (permission, *)
(* disk, a file held by another process).  A write that fails raises OSError *)
(* and leaves its file as it was.  The writes of refresh_status and          *)
(* _maybe_notify are named after their lines.                                *)

WritePoints ==
    {"save_383", "log_384", "save_387", "touch_391", "log_393", "save_394",
     "log_451", "log_477", "log_479"}

\* The writes that fail in one call: none, any single one, or every write of
\* the audit log.
LogWrites == {"log_384", "log_393", "log_451", "log_477", "log_479"}
Failures == {{}} \cup { {w} : w \in WritePoints } \cup {LogWrites}

\* What _maybe_notify leaves when writes may fail: as Notified, and the writes
\* that failed.
NotifiedW(log, nposts, post, raised, failed) ==
    [log |-> log, posts |-> nposts, post |-> post, raised |-> raised,
     failed |-> failed]

\* App._maybe_notify where the writes in `failing` fail.  The append_log of
\* line 477 is inside the try block, so its failure is caught like a failure
\* of the POST and line 479 logs it as a failed notification.
maybe_notify_w(c, log, nposts, postOk, failing) ==
    LET notify_cfg == c.notify
        webhook == strip(notify_cfg.discord_webhook_url)
        sent == LogLine("Notification sent (Discord).", 0)
        notsent == LogLine("Notification failed", 0)
    IN  IF ~notify_cfg.enabled THEN NotifiedW(log, nposts, "none", FALSE, {})
        ELSE IF webhook = ""
        THEN IF "log_451" \in failing
             THEN NotifiedW(log, nposts, "none", TRUE, {"log_451"})
             ELSE NotifiedW(append_log(log, LogLine("Notify enabled but webhook empty.", 0)),
                            nposts, "none", FALSE, {})
        ELSE IF postOk /\ "log_477" \notin failing
        THEN NotifiedW(append_log(log, sent), nposts + 1, "sent", FALSE, {})
        ELSE LET post == IF postOk THEN "sent" ELSE "failed"
                 before == IF postOk THEN {"log_477"} ELSE {}
             IN  IF "log_479" \in failing
                 THEN NotifiedW(log, nposts + 1, post, TRUE, before \cup {"log_479"})
                 ELSE NotifiedW(append_log(log, notsent), nposts + 1, post,
                                FALSE, before)

\* App.refresh_status where the writes in `failing` fail: the files and POST
\* count it leaves, the Status it shows, the exception that escapes it, the
\* writes that failed, and whether the incident record was written.  The first
\* failure outside _maybe_notify's try block ends the call (no try in
\* refresh_status).
refresh_status_w(ledger, lock, incident, log, nposts, record, now, postOk, failing) ==
    LET appended == AppendsAttempt(record, lock)
        history1 == IF appended THEN Append(ledger, now) ELSE ledger
        f383 == appended /\ "save_383" \in failing
        f384 == appended /\ ~f383 /\ "log_384" \in failing
        ledger1 == IF appended /\ ~f383 THEN history1 ELSE ledger
        log1 == IF appended /\ ~f383 /\ ~f384
                THEN append_log(log, LogLine("Recorded start attempt (UI).", 0))
                ELSE log
        status1 == compute_status(cfg, history1, now, lock)
        f387 == ~f383 /\ ~f384 /\ "save_387" \in failing
        evaluated == ~f383 /\ ~f384 /\ ~f387
        ledger2 == IF evaluated THEN status1.timestamps ELSE ledger1
        transition == evaluated
                      /\ LockTransition(record, status1, cfg.max_attempts, lock)
        f391 == transition /\ "touch_391" \in failing
        touched == transition /\ ~f391
        status2 == compute_status(cfg, status1.timestamps, now, TRUE)
        f393 == touched /\ "log_393" \in failing
        log2 == IF touched /\ ~f393
                THEN append_log(log1, LogLine("LOCKED (threshold reached).",
                                              Len(status2.timestamps)))
                ELSE log1
        f394 == touched /\ ~f393 /\ "save_394" \in failing
        written == touched /\ ~f393 /\ ~f394
        n == IF written THEN maybe_notify_w(cfg, log2, nposts, postOk, failing)
             ELSE NotifiedW(log2, nposts, "none", FALSE, {})
        failed == { w \in {"save_383"} : f383 } \cup { w \in {"log_384"} : f384 }
                  \cup { w \in {"save_387"} : f387 }
                  \cup { w \in {"touch_391"} : f391 }
                  \cup { w \in {"log_393"} : f393 }
                  \cup { w \in {"save_394"} : f394 } \cup n.failed
        raised == f383 \/ f384 \/ f387 \/ f391 \/ f393 \/ f394 \/ n.raised
    IN  [state_file |-> ledger2,
         lock_file |-> IF touched THEN TRUE ELSE lock,
         incident_file |-> IF written THEN make_incident(cfg, status2, now)
                           ELSE incident,
         log_file |-> n.log, posts |-> n.posts,
         status |-> IF transition THEN status2 ELSE status1,
         incident_written |-> written, post |-> n.post,
         raised |-> raised, failed |-> failed]

\* The thresholds and the audit-log lines followed with failing writes.
FailMaxM == 1
FailMaxLog == 3

\* The files, POST count, Status, escaped exception and failed writes become
\* those of result r.  A ledger that grows past max_attempts + 1 entries
\* (appended to again and again while the log write or the touch fails) is not
\* followed further.
BecomesW(r) ==
    /\ Becomes(r)
    /\ Len(r.log_file) <= FailMaxLog
    /\ Len(r.state_file) <= cfg.max_attempts + 1
    /\ exc' = IF r.raised THEN "OSError" ELSE "none"
    /\ failed_writes' = r.failed

\* "Record Start Attempt" where writes may fail
RecordAttemptW ==
    \E now \in Times(cfg), postOk \in BOOLEAN, failing \in Failures :
        LET r == refresh_status_w(state_file, lock_file, incident_file,
                                  log_file, posts, TRUE, now, postOk, failing)
        IN
        /\ now >= clock
        /\ clock' = now
        /\ BecomesW(r)
        /\ pruned' = pruned \cup (Range(state_file) \ Range(state_file'))
        /\ last' = [Last("record", Shown(r, "Status")) EXCEPT !.post = r.post]
        /\ run' = << >>
        /\ UNCHANGED <<cfg, raceVars, cfgVars, state_json, tailVars, toolVars,
                   procVars>>

\* "Analyze Only" where writes may fail
AnalyzeW ==
    \E now \in Times(cfg), failing \in Failures :
        LET r == refresh_status_w(state_file, lock_file, incident_file,
                                  log_file, posts, FALSE, now, TRUE, failing)
        IN
        /\ now >= clock
        /\ clock' = now
        /\ BecomesW(r)
        /\ pruned' = pruned \cup (Range(state_file) \ Range(state_file'))
        /\ last' = Last("analyze", Shown(r, "Status"))
        /\ run' = << >>
        /\ UNCHANGED <<cfg, raceVars, cfgVars, state_json, tailVars, toolVars,
                   procVars>>

NextFail == RecordAttemptW \/ AnalyzeW \/ unlock

InitFail == Init /\ cfg.max_attempts <= FailMaxM

SpecFail == InitFail /\ [][NextFail]_allVars

\* ------------------------------------------- the log tail of a notification
(* _maybe_notify attaches the tail of the audit log to its message (lines    *)
(* 454, 471-473).  The audit log is taken as text here: a file that may be   *)
(* missing, and the number of characters of each of its lines.               *)

MaxTailLines == 3

\* snippet[-1500:]
SnippetCap == 1500

\* The line lengths and the values of include_last_lines tried.
LineLengths == {0, 1, 700, 1499}
LastLinesTried == {-1, 0, 1, 2, DefaultLastLines}

TailLogs ==
    { [exists |-> TRUE, lines |-> l] :
        l \in UNION { [1 .. k -> LineLengths] : k \in 0 .. MaxTailLines } }
    \cup {[exists |-> FALSE, lines |-> << >>]}

Min(a, b) == IF a <= b THEN a ELSE b

RECURSIVE Sum(_)
Sum(s) == IF s = << >> THEN 0 ELSE Head(s) + Sum(Tail(s))

\* len("\n".join(lines))
JoinedChars(lines) == IF lines = << >> THEN 0 ELSE Sum(lines) + Len(lines) - 1

\* lines[-n:] for n > 0
LastN(lines, n) == SubSeq(lines, Max(1, Len(lines) - n + 1), Len(lines))

\* Mutant of tail_file: the whole log is returned, whatever n is.
tail_file_all(log, n) ==
    IF n <= 0 \/ ~log.exists THEN << >> ELSE log.lines

\* tail_file(path, n): the lines whose join it returns ("" is no lines, or one
\* empty line)
tail_file(log, n) ==
    IF n <= 0 \/ ~log.exists THEN << >> ELSE LastN(log.lines, n)

\* snippet = tail_file(self.log_file, last_lines); if snippet: msg += ...
\* snippet[-1500:] ...
log_tail(log, n) ==
    LET lines == tail_file(log, n)
    IN  IF JoinedChars(lines) > 0
        THEN [attached |-> TRUE, lines |-> lines,
              chars |-> Min(JoinedChars(lines), SnippetCap)]
        ELSE NoSnippet

\* The guard with notification enabled.
InitTail ==
    /\ Init
    /\ cfg.notify.enabled /\ cfg.max_attempts = 1 /\ cfg.time_window_seconds = 1

\* The audit log and include_last_lines are as the administrator left them.
SetTailInputs ==
    /\ last.op \in {"init", "notify"}
    /\ tail_log' \in TailLogs
    /\ include_last_lines' \in LastLinesTried
    /\ snippet' = NoSnippet
    /\ last' = Last("inputs", "Set")
    /\ UNCHANGED <<cfg, clock, state_file, lock_file, incident_file, log_file,
                   posts, status, run, pruned, incident_writes, raceVars,
                   loadVars, cfgVars, failed_writes, toolVars,
                   procVars>>

\* The message of _maybe_notify gets its log tail.
AttachTail ==
    /\ last.op = "inputs"
    /\ snippet' = log_tail(tail_log, include_last_lines)
    /\ last' = Last("notify", "Tail")
    /\ UNCHANGED <<cfg, clock, state_file, lock_file, incident_file, log_file,
                   posts, status, run, pruned, incident_writes, raceVars,
                   loadVars, cfgVars, failed_writes, tail_log,
                   include_last_lines, toolVars, procVars>>

NextTail == SetTailInputs \/ AttachTail

SpecTail == InitTail /\ [][NextTail]_allVars

\* ------------------------------------------ the launcher's Manage Tools
(* The launcher (src/app/main.py) keeps the tool dicts it loaded from        *)
(* tools.json in self.tools_raw and their parsed copies in self.tools.  The  *)
(* Manage Tools dialog edits data["tools"], a new list that holds the SAME   *)
(* dict objects as self.tools_raw (line 493), followed by the dicts that Add *)
(* created.  An entry of data is therefore a reference to the k-th dict of   *)
(* tools_raw (ref = k), or a dict of the dialog's own (ref = 0, val).        *)

\* The longest list of tools the dialog is followed to, and the number of
\* times the dialog is opened.
MaxTools == 2
MaxOpens == 2

\* The texts typed into the "id" entry of the form.
IdTexts == {"z", " "}

\* f"tool_{n}", the id add_new gives a new tool (line 587).
ToolIdTexts == <<"tool_1", "tool_2", "tool_3", "tool_4">>
tool_id(n) == ToolIdTexts[n]

\* The tools.json files the launcher may start from.
PriorToolFiles ==
    { ToolsDoc(<< >>),
      ToolsDoc(<<Tool("a", "n", "python", "a.py")>>),
      ToolsDoc(<<Tool("a", "n", "python", "a.py"),
                 Tool("b", "n", "exe", "b.exe")>>) }

\* A tools.json edited by hand: a tool without a name, a tool of a type the
\* launcher does not know.
EditedToolFiles ==
    { ToolsDoc(<<Tool("a", "", "python", "a.py")>>),
      ToolsDoc(<<Tool("a", "n", "service", "a.py")>>) }

\* The entry paths that exist on disk while the dialog is followed.
DialogEntryFiles == {"a.py", "b.exe"}

\* load_tools() on a tools.json that exists and parses: the list of new dicts
\* json.loads builds from the file.
load_tools(file) == file.tools

\* save_tools(obj): the file holds the values of the dicts of obj.
save_tools(ts) == ToolsDoc(ts)

\* _parse_tools: a ToolItem with copies of the fields of each dict.
parse_tools(ts) ==
    [k \in 1 .. Len(ts) |->
        Tool(ts[k].id, ts[k].name, ts[k].type, ts[k].entry)]

NoTool == Tool("", "", "", "")
Ref(k) == [ref |-> k, val |-> NoTool]
Own(t) == [ref |-> 0, val |-> t]

\* The dict an entry of data stands for, given the dicts of self.tools_raw.
Deref(raw, e) == IF e.ref > 0 THEN raw[e.ref] ELSE e.val

\* The values of the dicts of list d.
Values(raw, d) == [k \in 1 .. Len(d) |-> Deref(raw, d[k])]

\* data = {"tools": [t for t in self.tools_raw["tools"]]} (line 493): a new
\* list of the same dicts.
shallow_copy(raw) == [k \in 1 .. Len(raw) |-> Ref(k)]

\* refresh_tree(i) on list d: row i, when there is one, is selected and
\* on_select loads it into the form; otherwise selection and form stay.
refresh_tree(raw, d, i) ==
    /\ sel_idx' = i
    /\ IF i \in 1 .. Len(d)
       THEN LET t == Deref(raw, d[i])
            IN  /\ v_id' = t.id
                /\ v_name' = t.name
                /\ v_type' = t.type
                /\ v_entry' = t.entry
       ELSE UNCHANGED <<v_id, v_name, v_type, v_entry>>

\* abs_path(entry).exists(): an entry left empty is the folder of the
\* launcher itself, which exists.
entry_exists(entry, on_disk) == entry = "" \/ entry \in on_disk

\* _tool_status of tool t, given the process table, the processes that have
\* not exited and the entries on disk.
tool_status(t, table, running, on_disk) ==
    IF t.id \in DOMAIN table /\ table[t.id] \in running THEN "Running"
    ELSE IF t.type \in {"python", "exe"}
         THEN IF entry_exists(t.entry, on_disk) THEN "Ready" ELSE "Missing"
    ELSE IF t.type = "command" THEN "Ready"
    ELSE "?"

\* The status column _refresh_list and _tick_processes write for tool list ts.
StatusColumn(ts, table, running, on_disk) ==
    [k \in 1 .. Len(ts) |-> tool_status(ts[k], table, running, on_disk)]

\* _refresh_list on tool list ts: the rows are built again with their status
\* and the first one, when there is one, is selected.
refresh_list(ts) ==
    /\ tree_status' = StatusColumn(ts, procs, alive, entry_files)
    /\ selection' = IF ts # << >> THEN 1 ELSE 0

\* The guard's files and dashboard, which the launcher leaves alone.
toolsFrame == <<cfg, clock, state_file, lock_file, incident_file, log_file,
                posts, status, run, pruned, incident_writes, raceVars,
                loadVars, cfgVars, failed_writes, tailVars>>

\* App.__init__ of the launcher (lines 216-217) on the tools.json found.
InitTools ==
    /\ cfg = [max_attempts |-> ScenarioMax,
              time_window_seconds |-> ScenarioWindow, notify |-> NotifyOff]
    /\ clock = 0
    /\ state_file = << >>
    /\ lock_file = FALSE
    /\ incident_file = NoIncident
    /\ log_file = << >>
    /\ posts = 0
    /\ status = compute_status(cfg, << >>, 0, FALSE)
    /\ last = [op |-> "init", report |-> "Status", again |-> FALSE, post |-> "none"]
    /\ run = << >>
    /\ pruned = {}
    /\ incident_writes = 0
    /\ RaceAtRest
    /\ LoadAtRest
    /\ CfgAtRest
    /\ tools_json \in PriorToolFiles \cup EditedToolFiles
    /\ tools_raw = load_tools(tools_json)
    /\ tools = parse_tools(tools_raw)
    /\ win = FALSE
    /\ data = << >>
    /\ sel_idx = 0
    /\ v_id = ""
    /\ v_name = ""
    /\ v_type = "python"
    /\ v_entry = ""
    /\ opened = [n |-> 0, file |-> tools_json, tools |-> tools,
                 shown |-> tools_raw]
    /\ entry_files = DialogEntryFiles
    /\ \/ procs = NoProcs /\ alive = {} /\ spawned = 0
       \/ /\ tools_json = ToolsDoc(<<Tool("a", "n", "python", "a.py")>>)
          /\ procs = ("a" :> 1) /\ alive = {1} /\ spawned = 1
    /\ latest = procs
    /\ timers = 1 + spawned
    /\ tree_status = StatusColumn(tools, procs, alive, entry_files)
    /\ selection = IF tools # << >> THEN 1 ELSE 0

\* _manage_tools: the dialog opens on a shallow copy of the tool list, with
\* the first row selected (line 660).
manage_tools ==
    /\ ~win
    /\ opened.n < MaxOpens
    /\ win' = TRUE
    /\ data' = shallow_copy(tools_raw)
    /\ refresh_tree(tools_raw, shallow_copy(tools_raw),
                    IF tools_raw # << >> THEN 1 ELSE 0)
    /\ opened' = [n |-> opened.n + 1, file |-> tools_json, tools |-> tools,
                  shown |-> tools_raw]
    /\ last' = Last("open", "Opened")
    /\ UNCHANGED <<tools_json, tools_raw, tools, toolsFrame,
                   procVars>>

\* on_select: the user picks a row of the tree.
on_select ==
    /\ win
    /\ \E i \in 1 .. Len(data) :
         /\ i # sel_idx
         /\ refresh_tree(tools_raw, data, i)
    /\ last' = Last("select", "Selected")
    /\ UNCHANGED <<tools_json, tools_raw, tools, win, data, opened, toolsFrame,
                   procVars>>

\* add_new: a new dict is appended to the dialog's list and selected.
add_new ==
    /\ win
    /\ Len(data) < MaxTools
    /\ LET d == Append(data, Own(Tool(tool_id(Len(data) + 1), "New Tool",
                                      "python", "")))
       IN  /\ data' = d
           /\ refresh_tree(tools_raw, d, Len(d))
    /\ last' = Last("add", "Added")
    /\ UNCHANGED <<tools_json, tools_raw, tools, win, opened, toolsFrame,
                   procVars>>

\* The list d without its i-th entry.
Without(d, i) == SubSeq(d, 1, i - 1) \o SubSeq(d, i + 1, Len(d))

\* delete_sel: without a selection, or when the question is answered no,
\* nothing happens; otherwise the selected entry leaves the dialog's list.
delete_sel ==
    /\ win
    /\ \E yes \in BOOLEAN :
         IF sel_idx = 0 \/ ~yes
         THEN /\ last' = Last("delete", "NoOp")
              /\ UNCHANGED <<data, sel_idx, v_id, v_name, v_type, v_entry>>
         ELSE LET d == Without(data, sel_idx)
              IN  /\ data' = d
                  /\ refresh_tree(tools_raw, d, IF d # << >> THEN 1 ELSE 0)
                  /\ last' = Last("delete", "Deleted")
    /\ UNCHANGED <<tools_json, tools_raw, tools, win, opened, toolsFrame,
                   procVars>>

\* move(delta): the selected entry changes places with its neighbour.
move ==
    /\ win
    /\ \E delta \in {-1, 1} :
         LET j == sel_idx + delta
         IN  IF sel_idx = 0 \/ j < 1 \/ j > Len(data)
             THEN /\ last' = Last("move", "NoOp")
                  /\ UNCHANGED <<data, sel_idx, v_id, v_name, v_type, v_entry>>
             ELSE LET d == [data EXCEPT ![sel_idx] = data[j],
                                        ![j] = data[sel_idx]]
                  IN  /\ data' = d
                      /\ refresh_tree(tools_raw, d, j)
                      /\ last' = Last("move", "Moved")
    /\ UNCHANGED <<tools_json, tools_raw, tools, win, opened, toolsFrame,
                   procVars>>

\* apply_changes, pressed after the user has typed an id into the form or
\* left the form as loaded: the fields of the form are written INTO the
\* selected dict
\* (lines 621-628), so a dict that self.tools_raw holds too changes there as
\* well; refresh_tree then loads the dict into the form again.
apply_changes ==
    /\ win
    /\ IF sel_idx = 0
       THEN /\ last' = Last("apply", "NoOp")
            /\ UNCHANGED <<tools_raw, data, sel_idx, v_id, v_name, v_type, v_entry>>
       ELSE \E typed_id \in IdTexts \cup {v_id} :
              LET t == Tool(strip(typed_id), strip(v_name), strip(v_type),
                            strip(v_entry))
                  e == data[sel_idx]
                  raw == IF e.ref > 0 THEN [tools_raw EXCEPT ![e.ref] = t]
                         ELSE tools_raw
                  d == IF e.ref > 0 THEN data
                       ELSE [data EXCEPT ![sel_idx] = Own(t)]
              IN  /\ tools_raw' = raw
                  /\ data' = d
                  /\ refresh_tree(raw, d, sel_idx)
                  /\ last' = Last("apply", "Staged")
    /\ UNCHANGED <<tools_json, tools, win, opened, toolsFrame,
                   procVars>>

\* Mutant of Invalid: only the id is checked.
Invalid_idonly(t) == strip(t.id) = ""

\* The checks of save_and_close on one tool (lines 633-641).
Invalid(t) ==
    \/ strip(t.id) = ""
    \/ strip(t.name) = ""
    \/ t.type \notin {"python", "exe", "command"}

\* The dialog is gone, and its locals with it.
Destroyed ==
    /\ win' = FALSE
    /\ data' = << >>
    /\ sel_idx' = 0
    /\ v_id' = ""
    /\ v_name' = ""
    /\ v_type' = "python"
    /\ v_entry' = ""

\* save_and_close: an invalid tool is reported and nothing else happens;
\* otherwise the list is written, loaded again and parsed, the main window's
\* list is refreshed and the dialog closes.
save_and_close ==
    /\ win
    /\ LET ts == Values(tools_raw, data)
       IN  IF \E k \in 1 .. Len(ts) : Invalid(ts[k])
           THEN /\ last' = Last("save", "Invalid")
                /\ UNCHANGED <<tools_json, tools_raw, tools, win, data,
                               sel_idx, v_id, v_name, v_type, v_entry,
                               tree_status, selection>>
           ELSE /\ tools_json' = save_tools(ts)
                /\ tools_raw' = load_tools(save_tools(ts))
                /\ tools' = parse_tools(load_tools(save_tools(ts)))
                /\ refresh_list(parse_tools(load_tools(save_tools(ts))))
                /\ Destroyed
                /\ last' = Last("save", "Saved")
    /\ UNCHANGED <<opened, toolsFrame, procs, alive, spawned, latest, timers,
                   entry_files>>

\* The Cancel button: win.destroy (line 658).
Cancel ==
    /\ win
    /\ Destroyed
    /\ last' = Last("cancel", "Closed")
    /\ UNCHANGED <<tools_json, tools_raw, tools, opened, toolsFrame,
                   procVars>>

\* _reload: the Refresh button of the main window, which the open dialog
\* blocks (grab_set, line 491).
reload ==
    /\ ~win
    /\ last.op # "reload"
    /\ tools_raw' = load_tools(tools_json)
    /\ tools' = parse_tools(load_tools(tools_json))
    /\ refresh_list(parse_tools(load_tools(tools_json)))
    /\ last' = Last("reload", "Reloaded")
    /\ UNCHANGED <<tools_json, win, data, sel_idx, v_id, v_name, v_type,
                   v_entry, opened, toolsFrame, procs, alive, spawned, latest,
                   timers, entry_files>>

NextTools ==
    \/ manage_tools
    \/ on_select
    \/ add_new
    \/ delete_sel
    \/ move
    \/ apply_changes
    \/ save_and_close
    \/ Cancel
    \/ reload

SpecTools == InitTools /\ [][NextTools]_allVars

\* --------------------------------------------- the launcher's process table
(* The launcher starts the selected tool (_launch_selected), tracks the      *)
(* process under the tool's id in self._procs, and polls the tracked         *)
(* processes from a timer (_tick_processes).  Processes exit and entry files *)
(* come and go on their own.                                                 *)

\* The number of processes the launcher is followed to start.
MaxSpawn == 3

\* The tool lists the launcher runs with: a script and a command; a tool of
\* an unknown type that shares its id with an executable.
ProcToolLists ==
    { <<Tool("a", "n", "python", "a.py"), Tool("c", "n", "command", "cmd")>>,
      <<Tool("a", "n", "service", "a.sh"), Tool("a", "n", "exe", "a.exe")>> }

\* The entry paths of tool list ts.
EntryPaths(ts) == { ts[k].entry : k \in 1 .. Len(ts) }

\* self._procs[tid] = proc
Tracked(table, tid, proc) ==
    [x \in DOMAIN table \cup {tid} |-> IF x = tid THEN proc ELSE table[x]]

\* Mutant of Pruned: exited processes stay in the table.
Pruned_keep(table, running) == table

\* The first loop of _tick_processes (lines 720-723): the entries whose
\* process has exited are deleted.
Pruned(table, running) ==
    [x \in { y \in DOMAIN table : table[y] \in running } |-> table[x]]

\* Mutant of build_cmd: the entry is not looked for.
build_cmd_nocheck(t, on_disk) ==
    IF t.type \in {"python", "exe", "command"} THEN Returned(0)
    ELSE Raises("Unknown tool type")

\* _build_cmd: the command line of tool t, or the RuntimeError it raises.
build_cmd(t, on_disk) ==
    IF t.type = "python"
    THEN IF entry_exists(t.entry, on_disk) THEN Returned(0)
         ELSE Raises("Entry script not found")
    ELSE IF t.type = "exe"
    THEN IF entry_exists(t.entry, on_disk) THEN Returned(0)
         ELSE Raises("Executable not found")
    ELSE IF t.type = "command" THEN Returned(0)
    ELSE Raises("Unknown tool type")

\* What subprocess.Popen does: it starts a process that runs on, it starts a
\* process that has exited by the time it is polled, or it raises.
PopenOutcomes == {"running", "exited", "error"}

\* _tick_processes on process table `table`: exited entries go, every row of
\* the list gets its status again, and the next poll is armed (line 732).
tick_processes(table, running, armed) ==
    /\ procs' = Pruned(table, running)
    /\ tree_status' = StatusColumn(tools, Pruned(table, running), running,
                                   entry_files)
    /\ timers' = armed + 1

\* The dialog stays closed and the tool list is not edited.
procFrame == <<cfg, clock, state_file, lock_file, incident_file, log_file,
               posts, status, run, pruned, incident_writes, raceVars,
               loadVars, cfgVars, failed_writes, tailVars, toolVars>>

\* App.__init__ of the launcher (lines 214-223): no process is tracked, the
\* list shows the status of every tool and one poll is pending.
InitProc ==
    /\ cfg = [max_attempts |-> ScenarioMax,
              time_window_seconds |-> ScenarioWindow, notify |-> NotifyOff]
    /\ clock = 0
    /\ state_file = << >>
    /\ lock_file = FALSE
    /\ incident_file = NoIncident
    /\ log_file = << >>
    /\ posts = 0
    /\ status = compute_status(cfg, << >>, 0, FALSE)
    /\ last = [op |-> "init", report |-> "Status", again |-> FALSE, post |-> "none"]
    /\ run = << >>
    /\ pruned = {}
    /\ incident_writes = 0
    /\ RaceAtRest
    /\ LoadAtRest
    /\ CfgAtRest
    /\ \E ts \in ProcToolLists :
         /\ tools_json = ToolsDoc(ts)
         /\ tools_raw = load_tools(ToolsDoc(ts))
         /\ tools = parse_tools(load_tools(ToolsDoc(ts)))
    /\ win = FALSE
    /\ data = << >>
    /\ sel_idx = 0
    /\ v_id = ""
    /\ v_name = ""
    /\ v_type = "python"
    /\ v_entry = ""
    /\ opened = [n |-> 0, file |-> tools_json, tools |-> tools,
                 shown |-> tools_raw]
    /\ procs = NoProcs
    /\ alive = {}
    /\ spawned = 0
    /\ latest = NoProcs
    /\ timers = 1
    /\ entry_files \in SUBSET EntryPaths(tools)
    /\ tree_status = StatusColumn(tools, NoProcs, {}, entry_files)
    /\ selection = IF tools # << >> THEN 1 ELSE 0

\* The user picks a row of the main list, or takes the selection away.
tree_select ==
    /\ \E i \in 0 .. Len(tools) :
         /\ i # selection
         /\ selection' = i
    /\ last' = Last("pick", "Picked")
    /\ UNCHANGED <<procs, alive, spawned, latest, timers, tree_status,
                   entry_files, procFrame>>

\* _launch_selected: without a selection a warning; when _build_cmd or Popen
\* raises, "Launch failed"; otherwise the new process is tracked under the
\* tool's id and _tick_processes is called (line 783).
launch_selected ==
    /\ IF selection = 0
       THEN /\ last' = Last("launch", "NoSelection")
            /\ UNCHANGED <<procs, alive, spawned, latest, timers, tree_status>>
       ELSE LET t == tools[selection]
                cmd == build_cmd(t, entry_files)
            IN  IF ~cmd.ok
                THEN /\ last' = Last("launch", cmd.exc)
                     /\ UNCHANGED <<procs, alive, spawned, latest, timers,
                                    tree_status>>
                ELSE \E outcome \in PopenOutcomes :
                       IF outcome = "error"
                       THEN /\ last' = Last("launch", "SpawnError")
                            /\ UNCHANGED <<procs, alive, spawned, latest,
                                           timers, tree_status>>
                       ELSE /\ spawned < MaxSpawn
                            /\ spawned' = spawned + 1
                            /\ alive' = IF outcome = "running"
                                        THEN alive \cup {spawned + 1}
                                        ELSE alive
                            /\ latest' = Tracked(latest, t.id, spawned + 1)
                            /\ tick_processes(
                                   Tracked(procs, t.id, spawned + 1),
                                   IF outcome = "running"
                                   THEN alive \cup {spawned + 1} ELSE alive,
                                   timers)
                            /\ last' = Last("launch", "Launched")
    /\ UNCHANGED <<selection, entry_files, procFrame>>

\* A pending timer fires: _tick_processes runs and arms the next one.
tick ==
    /\ timers > 0
    /\ tick_processes(procs, alive, timers - 1)
    /\ last' = Last("tick", "Polled")
    /\ UNCHANGED <<alive, spawned, latest, selection, entry_files, procFrame>>

\* A process the launcher started exits.
ProcessExits ==
    /\ \E p \in alive : alive' = alive \ {p}
    /\ last' = Last("exit", "Exited")
    /\ UNCHANGED <<procs, spawned, latest, timers, tree_status, selection,
                   entry_files, procFrame>>

\* An entry file is created or removed.
EntryChanges ==
    /\ \E path \in EntryPaths(tools) :
         entry_files' = IF path \in entry_files THEN entry_files \ {path}
                        ELSE entry_files \cup {path}
    /\ last' = Last("disk", "Changed")
    /\ UNCHANGED <<procs, alive, spawned, latest, timers, tree_status,
                   selection, procFrame>>

NextProc ==
    \/ tree_select
    \/ launch_selected
    \/ tick
    \/ ProcessExits
    \/ EntryChanges

SpecProc == InitProc /\ [][NextProc]_allVars

TypeOK ==
    /\ cfg \in Configs
    /\ clock \in Times(cfg)
    /\ lock_file \in BOOLEAN
    /\ posts \in 0 .. LogCap(cfg)
    /\ Len(log_file) <= LogCap(cfg)
    /\ status.state \in {"OK", "WARNING", "LOCKED"}

\* ----------------------------------------------------------------- claims

M == cfg.max_attempts
W == cfg.time_window_seconds

InWindowAt(t, now) == now - t <= W

\* The entries of ledger s that are at most W seconds old at time now.
StillInWindow(s, now) == SelectSeq(s, LAMBDA t : InWindowAt(t, now))

\* The unlocked classification of an in-window count.
Classify(count) == IF count >= Max(1, M - 1) THEN "WARNING" ELSE "OK"

Scenario == M = ScenarioMax /\ W = ScenarioWindow

NotifyActive ==
    cfg.notify.enabled /\ cfg.notify.discord_webhook_url \notin {"", " "}

\* C1: starting unlocked with an empty ledger, after max_attempts
\* recordAttempt calls in a row whose times lie within the window of each
\* other, the status returned by the last of them is LOCKED and the lock
\* marker exists.
C1_LockedAtThreshold ==
    (/\ Len(run) = M
     /\ run[Len(run)] - run[1] <= W)
    => (last.op = "record" /\ lock_file /\ status.state = "LOCKED")

C1_Witness ==
    /\ Len(run) = M
    /\ M >= 2
    /\ run[1] < run[Len(run)]
    /\ run[Len(run)] - run[1] <= W
    /\ lock_file

\* C2 (as claimed): a recordAttempt made while the lock marker exists adds no
\* entry to the ledger and reports the same in-window count as before.
C2_CountUnchangedWhileLocked ==
    [][(last'.op = "record" /\ lock_file)
         => (/\ Len(state_file') <= Len(state_file)
             /\ status'.attempt_count = status.attempt_count)]_vars

\* C2 (amended): a recordAttempt made while the lock marker exists appends
\* nothing: the ledger it leaves is the ledger it found without the entries
\* that have left the window, the count it reports is the number of entries
\* left, which never exceeds the count reported before and equals it when no
\* entry has left the window.
C2_NoAppendWhileLocked ==
    [][(last'.op = "record" /\ lock_file)
         => (/\ lock_file'
             /\ state_file' = StillInWindow(state_file, clock')
             /\ status'.attempt_count = Len(state_file')
             /\ status'.attempt_count <= status.attempt_count
             /\ (\A i \in 1 .. Len(state_file) : InWindowAt(state_file[i], clock'))
                  => (/\ state_file' = state_file
                      /\ status'.attempt_count = status.attempt_count))]_vars

C2_Witness ==
    /\ lock_file
    /\ last.op = "record"
    /\ Len(run) = M + 1
    /\ status.attempt_count < M
    /\ status.attempt_count > 0

\* C3: once the lock marker exists, only an unlock that reports "Removed"
\* takes it away; analyze, recordAttempt and clearHistory never do.
C3_OnlyUnlockRemovesLock ==
    [][(lock_file /\ ~lock_file')
         => (last'.op = "unlock" /\ last'.report = "Removed")]_vars

C3_Witness ==
    /\ lock_file
    /\ state_file = << >>
    /\ pruned # {}
    /\ last.op = "record"

\* C4: a recordAttempt creates the lock marker if and only if the marker was
\* absent before the call and the in-window count after appending now is at
\* least max_attempts; it then returns LOCKED, writes the incident record of
\* that count and invokes the notification; in every other case it leaves the
\* marker, the incident record and the POST count alone.
C4_LockIffThreshold ==
    [][(last'.op = "record") =>
        LET count == Cardinality({ i \in 1 .. Len(state_file) :
                                     InWindowAt(state_file[i], clock') }) + 1
            transition == ~lock_file /\ lock_file'
        IN  /\ transition <=> (~lock_file /\ count >= M)
            /\ transition =>
                 /\ status'.state = "LOCKED"
                 /\ status'.attempt_count = count
                 /\ incident_file'.state = "LOCKED"
                 /\ incident_file'.timestamp = clock'
                 /\ incident_file'.attempt_count = count
                 /\ incident_file'.attempt_timestamps =
                        Append(StillInWindow(state_file, clock'), clock')
                 /\ posts' = posts + (IF NotifyActive THEN 1 ELSE 0)
            /\ ~transition =>
                 /\ lock_file' = lock_file
                 /\ incident_file' = incident_file
                 /\ posts' = posts]_vars

C4_Witness ==
    /\ M = 2
    /\ Len(run) = M
    /\ lock_file
    /\ incident_file # NoIncident
    /\ incident_file.timestamp = clock
    /\ incident_file.attempt_count = Len(run)
    /\ posts = 1

\* The unlocked classification holds in a state (every handler leaves one).
C5_Boundary == ~lock_file => status.state = Classify(status.attempt_count)

\* C5: whenever the lock marker is absent the status shown is WARNING exactly
\* when the in-window count is at least max(1, max_attempts - 1) and OK
\* otherwise; a recordAttempt made unlocked that leaves a count below
\* max_attempts leaves the marker absent and returns OK or WARNING by that
\* boundary.
C5_WarningBoundary ==
    [][/\ C5_Boundary'
       /\ (last'.op = "record" /\ ~lock_file /\ status'.attempt_count < M)
            => (~lock_file' /\ status'.state = Classify(status'.attempt_count))]_vars

C5_Witness ==
    /\ ~lock_file
    /\ last.op = "record"
    /\ status.state = "WARNING"
    /\ status.attempt_count = M - 1
    /\ M = MaxM

\* A step of the unlock handler.
C6_UnlockStep ==
    (last'.op = "unlock") =>
        IF ~lock_file
        THEN /\ last'.report = "NoOp"
             /\ UNCHANGED <<state_file, lock_file, incident_file, log_file,
                            posts, status>>
        ELSE /\ last'.report = "Removed"
             /\ ~lock_file'
             /\ status'.timestamps = StillInWindow(state_file, clock')
             /\ status'.attempt_count = Len(StillInWindow(state_file, clock'))
             /\ status'.state = Classify(status'.attempt_count)
             /\ state_file' = StillInWindow(state_file, clock')

\* The analyze button used right after an unlock that removed the lock.
C6_AnalyzeAfterUnlock ==
    (last.op = "unlock" /\ last.report = "Removed" /\ last'.op = "analyze")
        => (/\ ~lock_file'
            /\ status'.timestamps = StillInWindow(state_file, clock')
            /\ status'.state = Classify(Len(StillInWindow(state_file, clock'))))

\* C6: unlock on an absent lock reports NoOp and changes neither the ledger,
\* the incident record nor the audit log; unlock on a present lock removes the
\* marker, and the analyze that follows returns OK or WARNING computed from
\* exactly the ledger entries still inside the window.
C6_Unlock == [][C6_UnlockStep /\ C6_AnalyzeAfterUnlock]_vars

C6_Witness ==
    /\ last.op = "unlock"
    /\ last.report = "NoOp"
    /\ incident_file # NoIncident
    /\ status.state = "WARNING"
    /\ state_file # << >>

\* C7: an analyze call only prunes: it appends no timestamp, neither creates
\* nor removes the lock marker, writes no incident record, attempts no POST
\* and adds no audit-log line, also when the lock is absent and the in-window
\* count is at least max_attempts.
C7_AnalyzeOnlyPrunes ==
    [][(last'.op = "analyze") =>
        /\ state_file' = StillInWindow(state_file, clock')
        /\ lock_file' = lock_file
        /\ incident_file' = incident_file
        /\ posts' = posts
        /\ log_file' = log_file]_vars

C7_Witness ==
    /\ last.op = "analyze"
    /\ ~lock_file
    /\ Len(state_file) >= M

\* Nothing older than the window, and nothing pruned, is in the ledger or the
\* status.
C8_NothingOld ==
    /\ \A i \in 1 .. Len(state_file) : InWindowAt(state_file[i], clock)
    /\ \A i \in 1 .. Len(status.timestamps) : InWindowAt(status.timestamps[i], clock)
    /\ pruned \cap Range(state_file) = {}
    /\ pruned \cap Range(status.timestamps) = {}

\* C8: the persisted ledger and the status hold no entry older than the
\* window at the time of the evaluation; an entry that pruning has dropped is
\* in no later ledger and no later status; with window=300, max_attempts=3
\* and one attempt at t=0, a recordAttempt at t=400 counts 1 and returns OK.
C8_PrunedNeverReturns ==
    /\ C8_NothingOld
    /\ [][/\ C8_NothingOld'
          /\ (last'.op \in {"analyze", "record", "unlock"}) =>
               \A i \in 1 .. Len(state_file) :
                  ~InWindowAt(state_file[i], clock') =>
                     /\ state_file[i] \notin Range(state_file')
                     /\ state_file[i] \notin Range(status'.timestamps)
                     /\ state_file[i] \in pruned'
          /\ (/\ Scenario
              /\ state_file = <<0>>
              /\ ~lock_file
              /\ last'.op = "record"
              /\ clock' = 400)
               => (/\ status'.attempt_count = 1
                   /\ status'.state = "OK"
                   /\ state_file' = <<400>>)]_vars

C8_Witness ==
    /\ Scenario
    /\ last.op = "record"
    /\ state_file = <<400>>
    /\ 0 \in pruned
    /\ status.state = "OK"
    /\ status.attempt_count = 1

\* C9: an analyze that follows an analyze, with every ledger entry still
\* inside the window at its time, returns the same in-window count and leaves
\* the same persisted ledger.
C9_PruneIdempotent ==
    [][(/\ last'.op = "analyze"
        /\ last'.again
        /\ \A i \in 1 .. Len(state_file) : InWindowAt(state_file[i], clock'))
         => (/\ status'.attempt_count = status.attempt_count
             /\ status'.timestamps = status.timestamps
             /\ state_file' = state_file)]_vars

C9_Witness ==
    /\ last.op = "analyze"
    /\ last.again
    /\ state_file # << >>
    /\ clock - state_file[1] = W

\* The statuses of the scenario, by the recordAttempt calls made so far.
C10_Statuses ==
    Scenario =>
        /\ run = <<0>> => (status.state = "OK" /\ status.attempt_count = 1)
        /\ run = <<0, 50>> =>
             /\ status.state = "WARNING"
             /\ status.attempt_count = 2
             /\ status.max_attempts = 3
        /\ run = <<0, 50, 100>> =>
             /\ status.state = "LOCKED"
             /\ lock_file
             /\ incident_file.state = "LOCKED"
             /\ incident_file.attempt_count = 3
        /\ run = <<0, 50, 100, 120>> =>
             /\ status.state = "LOCKED"
             /\ lock_file
             /\ state_file = <<0, 50, 100>>

\* C10: with max_attempts=3 and window=300, recordAttempt at t=0, 50, 100
\* from an empty unlocked state returns OK, WARNING (2 of 3) and LOCKED; the
\* incident record has attempt_count 3; with notify enabled and a non-blank
\* URL the third call attempts exactly one POST; a fourth recordAttempt at
\* t=120 returns LOCKED, attempts no POST and leaves the 3 entries.
C10_Scenario ==
    /\ C10_Statuses
    /\ [][/\ C10_Statuses'
          /\ (Scenario /\ NotifyActive /\ run = <<0, 50>> /\ run' = <<0, 50, 100>>)
               => posts' = posts + 1
          /\ (Scenario /\ run = <<0, 50, 100>> /\ run' = <<0, 50, 100, 120>>)
               => (posts' = posts /\ state_file' = state_file)]_vars

C10_Witness ==
    /\ Scenario
    /\ NotifyActive
    /\ run = <<0, 50, 100, 120>>
    /\ posts = 1
    /\ Len(state_file) = 3

\* A recordAttempt step that creates the lock marker.
LockStep == last'.op = "record" /\ ~lock_file /\ lock_file'

\* The last line of an audit log (of a non-empty one).
LastLine(log) == log[Len(log)].msg

\* C11: when the POST of a lock transition raises, the recordAttempt call
\* still returns LOCKED, the lock marker and the incident record of this
\* transition are in place, a failure line is the last line appended to the
\* audit log, and no error reaches the caller.
C11_NotifyFailureKeepsLock ==
    [][(last'.op = "record" /\ last'.post = "failed") =>
        /\ last'.report = "Status"
        /\ status'.state = "LOCKED"
        /\ ~lock_file /\ lock_file'
        /\ incident_file'.state = "LOCKED"
        /\ incident_file'.timestamp = clock'
        /\ incident_writes' = incident_writes + 1
        /\ posts' = posts + 1
        /\ Len(log_file') = Len(log_file) + 3
        /\ LastLine(log_file') = "Notification failed"]_vars

C11_Witness ==
    /\ last.op = "record"
    /\ last.post = "failed"
    /\ last.report = "Status"
    /\ lock_file
    /\ status.state = "LOCKED"
    /\ incident_file # NoIncident

\* C12 (as claimed): on a lock transition with notify disabled or the webhook
\* blank no POST is attempted, nothing is raised, and in both cases the
\* notification writes a line to the audit log (a third line after the
\* "Recorded" and "LOCKED" lines of the call).
C12_BothCasesLogged ==
    [][(LockStep /\ ~NotifyActive) =>
        /\ posts' = posts
        /\ last'.report = "Status"
        /\ Len(log_file') = Len(log_file) + 3]_vars

\* C12 (amended): on a lock transition with notify disabled or the webhook
\* blank no POST is attempted and nothing is raised; with notify enabled and
\* a blank webhook the line "Notify enabled but webhook empty." is written to
\* the audit log, with notify disabled the notification writes no line (the
\* "LOCKED" line stays the last one).
C12_NotifyNoOp ==
    [][(LockStep /\ ~NotifyActive) =>
        /\ posts' = posts
        /\ last'.post = "none"
        /\ last'.report = "Status"
        /\ IF cfg.notify.enabled
           THEN /\ Len(log_file') = Len(log_file) + 3
                /\ LastLine(log_file') = "Notify enabled but webhook empty."
           ELSE /\ Len(log_file') = Len(log_file) + 2
                /\ LastLine(log_file') = "LOCKED (threshold reached)."]_vars

C12_Witness ==
    /\ last.op = "record"
    /\ lock_file
    /\ cfg.notify.enabled
    /\ cfg.notify.discord_webhook_url = " "
    /\ posts = 0
    /\ LastLine(log_file) = "Notify enabled but webhook empty."

\* C13: the incident record is written once by every step that creates the
\* lock marker and by no other step; the record written has state LOCKED,
\* attempt_count equal to the in-window count of the triggering call, which
\* is at least max_attempts, and attempt_timestamps equal to that window.
C13_IncidentPerTransition ==
    [][LET transition == ~lock_file /\ lock_file'
           window == Append(StillInWindow(state_file, clock'), clock')
       IN  /\ incident_writes' =
                  incident_writes + (IF transition THEN 1 ELSE 0)
           /\ transition =>
                /\ last'.op = "record"
                /\ incident_file'.state = "LOCKED"
                /\ incident_file'.attempt_count = Len(window)
                /\ incident_file'.attempt_count >= M
                /\ incident_file'.attempt_timestamps = window
                /\ incident_file'.timestamp = clock'
           /\ ~transition => incident_file' = incident_file]_vars

C13_Witness ==
    /\ incident_writes = 2
    /\ lock_file
    /\ incident_file.state = "LOCKED"
    /\ incident_file.attempt_count > M

\* C14: a confirmed clearHistory empties the ledger whether or not the lock
\* marker exists and leaves the marker and the incident record as they were;
\* the analyze that ends it reports an in-window count of 0 and the state
\* LOCKED if the marker existed, OK otherwise.
C14_ClearHistory ==
    [][(last'.op = "clear" /\ last'.report = "Cleared") =>
        /\ state_file' = << >>
        /\ lock_file' = lock_file
        /\ incident_file' = incident_file
        /\ incident_writes' = incident_writes
        /\ status'.attempt_count = 0
        /\ status'.timestamps = << >>
        /\ status'.state = IF lock_file THEN "LOCKED" ELSE "OK"]_vars

C14_Witness ==
    /\ last.op = "clear"
    /\ last.report = "Cleared"
    /\ lock_file
    /\ status.state = "LOCKED"
    /\ status.attempt_count = 0
    /\ incident_file # NoIncident
    /\ incident_file.attempt_count > 0

\* C20: a recordAttempt made while the lock marker exists leaves the marker,
\* writes no incident record, attempts no POST and adds no audit-log line;
\* an incident is written only by a step that starts without the marker and
\* creates it, and the marker then stays until an unlock, so between two
\* unlocks at most one call performs the lock transition.
C20_RecordWhileLockedRefused ==
    [][/\ (last'.op = "record" /\ lock_file) =>
            /\ lock_file'
            /\ status'.state = "LOCKED"
            /\ incident_file' = incident_file
            /\ incident_writes' = incident_writes
            /\ posts' = posts
            /\ log_file' = log_file
       /\ (incident_writes' # incident_writes) => (~lock_file /\ lock_file')
       /\ (lock_file /\ ~lock_file') => last'.op = "unlock"]_vars

C20_Witness ==
    /\ lock_file
    /\ last.op = "record"
    /\ Len(run) = M + 1
    /\ Len(state_file) = M
    /\ incident_writes = 1

\* Both interleaved transactions have finished, and both found the lock
\* marker absent (so both appended their attempt).
BothDone == \A p \in Procs : pc[p] = "done"
BothSawUnlocked == \A p \in Procs : ~loc[p].locked

\* The number of entries of ledger s equal to t.
Occ(s, t) == Cardinality({ i \in 1 .. Len(s) : s[i] = t })

\* C15: when two interleaved recordAttempt transactions both find the lock
\* marker absent and both decide to lock, then once both have finished the
\* marker exists, although the incident record has been written twice and,
\* with notification active, two POSTs have been attempted.
C15_RaceStillLocks ==
    (BothDone /\ BothSawUnlocked /\ \A p \in Procs : loc[p].decided)
        => (/\ lock_file
            /\ incident_file.state = "LOCKED"
            /\ incident_writes = 2
            /\ NotifyActive => posts = 2)

C15_Witness ==
    /\ BothDone
    /\ BothSawUnlocked
    /\ \A p \in Procs : loc[p].decided
    /\ NotifyActive
    /\ lock_file
    /\ incident_writes = 2
    /\ posts = 2

\* C16 (as claimed): when two interleaved recordAttempt transactions both
\* find the lock marker absent, their times lie within the window of each
\* other, and their two attempts together with the entries already in the
\* window number at least max_attempts, then once both have finished the
\* marker exists and both appended timestamps are in the persisted ledger.
C16_ThresholdUnderRace ==
    (BothDone /\ BothSawUnlocked) =>
        LET tA == loc["A"].now
            tB == loc["B"].now
            tmax == Max(tA, tB)
            tmin == IF tA <= tB THEN tA ELSE tB
            inWindow == Cardinality({ i \in 1 .. Len(prior) :
                                        InWindowAt(prior[i], tmax) }) + 2
        IN  (tmax - tmin <= W /\ inWindow >= M) =>
                /\ lock_file
                /\ \A t \in {tA, tB} :
                     Occ(state_file, t) >=
                        Occ(prior, t) + Cardinality({ p \in Procs : loc[p].now = t })

\* C17: a missing or corrupt ledger is read as empty and never surfaced: for
\* every content of the ledger file (absent, unparsable, a JSON value that is
\* not a list, a list with non-integer items), analyze and recordAttempt
\* return a valid Status and no exception escapes them.
C17_CorruptLedgerNeverRaises ==
    last.op \in {"analyze", "record"} =>
        /\ exc = "none"
        /\ last.report = "Status"
        /\ status.state \in {"OK", "WARNING", "LOCKED"}

\* A text denotes an integer: a decimal literal, white space around it or not.
IsInteger(t) ==
    t \in {"0", "1", "2", "3", "4", "5", "-1", "60", "180", "300", " 2 "}

\* An entry of the panel holds something that is not an integer: the maximum,
\* the window, or a piece of the backoff list that is not blank.
InvalidEntries ==
    \/ ~IsInteger(var_max)
    \/ ~IsInteger(var_window)
    \/ \E i \in 1 .. Len(var_backoff) :
          var_backoff[i] # "" /\ ~IsInteger(var_backoff[i])

\* C18: invalid configuration values are rejected at save and never coerced:
\* when max attempts, window or any (non-blank) backoff item is not an
\* integer, save_cfg reports failure and leaves the in-memory configuration
\* and the configuration file exactly as they were.
C18_InvalidConfigRejected ==
    [][(last'.op = "save_cfg" /\ InvalidEntries)
       => /\ last'.report = "Save failed"
          /\ cfg' = cfg
          /\ config_file' = config_file]_allVars

\* A save was refused for its window ("2.5") although its maximum was valid
\* and differs from the active one, which stayed as it was.
C18_Witness ==
    /\ last.op = "save_cfg"
    /\ last.report = "Save failed"
    /\ var_max = " 2 "
    /\ var_window = "2.5"
    /\ cfg.max_attempts # 2
    /\ config_file = ConfigDoc(cfg)

\* C19: max_attempts >= 1 and time_window_seconds >= 1 hold in every
\* reachable state: no save_cfg or _load_cfg leaves the active configuration
\* with max_attempts < 1 or time_window_seconds < 1.
C19_ConfigInvariant ==
    /\ cfg.max_attempts >= 1
    /\ cfg.time_window_seconds >= 1

\* C21: the evaluator only classifies and never locks: with the marker absent
\* (after an unlock without clearHistory) and at least max_attempts entries
\* still inside the window, analyze returns WARNING and leaves the marker
\* absent, and the next recordAttempt inside the window creates the marker
\* again, writes a new incident record and notifies again.
C21_EvaluatorNeverLocks ==
    [][(~lock_file /\ Len(StillInWindow(state_file, clock')) >= M) =>
        /\ (last'.op = "analyze") =>
              /\ status'.state = "WARNING"
              /\ ~lock_file'
              /\ incident_file' = incident_file
              /\ incident_writes' = incident_writes
              /\ posts' = posts
        /\ (last'.op = "record") =>
              /\ lock_file'
              /\ status'.state = "LOCKED"
              /\ incident_writes' = incident_writes + 1
              /\ incident_file'.timestamp = clock'
              /\ incident_file'.attempt_count =
                     Len(StillInWindow(state_file, clock')) + 1
              /\ posts' = posts + (IF NotifyActive THEN 1 ELSE 0)]_vars

\* The marker was created a second time by a record that found max_attempts
\* entries still in the window, and the second notification went out.
C21_Witness ==
    /\ lock_file
    /\ last.op = "record"
    /\ Len(state_file) = M + 1
    /\ incident_writes = 2
    /\ posts = 2

\* C22: in sequential execution the status returned by every analyze and
\* recordAttempt call has state LOCKED if and only if the lock marker exists
\* when the call returns, including the call that performs the lock
\* transition.
C22_LockedIffMarker ==
    (last.op \in {"analyze", "record"}) =>
        (status.state = "LOCKED" <=> lock_file)

\* The call that performed the lock transition (its incident record bears the
\* time of the call) returned LOCKED although its POST failed.
C22_Witness ==
    /\ last.op = "record"
    /\ last.post = "failed"
    /\ incident_file # NoIncident
    /\ incident_file.timestamp = clock
    /\ status.state = "LOCKED"
    /\ lock_file

\* C23: after every analyze or recordAttempt at time now, the persisted ledger
\* equals exactly the entries of the ledger as loaded (plus now, for an
\* unlocked record) that satisfy now - t <= window, in their original
\* relative order; an entry with now - t = window is retained; the returned
\* attempt_count equals the length of the returned timestamp list, which
\* equals that persisted ledger.
C23_LedgerIsPrunedLoad ==
    [][(last'.op \in {"analyze", "record"}) =>
        LET now == clock'
            loaded == IF last'.op = "record" /\ ~lock_file
                      THEN Append(state_file, now) ELSE state_file
            inside == { i \in 1 .. Len(loaded) : now - loaded[i] <= W }
        IN  /\ Len(state_file') = Cardinality(inside)
            /\ \A i \in inside :
                 state_file'[Cardinality({ j \in inside : j <= i })] = loaded[i]
            /\ status'.timestamps = state_file'
            /\ status'.attempt_count = Len(status'.timestamps)]_vars

\* An analyze kept an entry exactly window seconds old together with a newer
\* one, and dropped an older one.
C23_Witness ==
    /\ last.op = "analyze"
    /\ Len(state_file) = 2
    /\ clock - state_file[1] = W
    /\ state_file[2] > state_file[1]
    /\ pruned # {}

\* C24: every recordAttempt made while unlocked adds exactly one entry, equal
\* to now, to the ledger before pruning, so the in-window count it returns is
\* one more than the number of previously stored entries still inside the
\* window at now.
C24_RecordAddsOne ==
    [][(last'.op = "record" /\ ~lock_file) =>
        /\ state_file' = Append(StillInWindow(state_file, clock'), clock')
        /\ status'.attempt_count = Len(StillInWindow(state_file, clock')) + 1]_vars

\* An unlocked record that found one stored entry still in the window and one
\* that was not: it returned 2 and did not lock.
C24_Witness ==
    /\ last.op = "record"
    /\ ~lock_file
    /\ status.attempt_count = 2
    /\ state_file[1] < clock
    /\ state_file[2] = clock
    /\ \E t \in pruned : clock - t > W

\* The number of "LOCKED (threshold reached)." lines in an audit log.
LockedLines(log) ==
    Cardinality({ i \in 1 .. Len(log) : log[i].msg = "LOCKED (threshold reached)." })

\* C25: within a lock transition the steps happen in the order marker
\* created, transition logged, incident record written, notification
\* attempted: the transition is logged only with the marker present, the
\* incident record is written only after its transition was logged, and a POST
\* is never attempted in a state where the marker is absent or the incident
\* record of this transition has not been written.
C25_TransitionOrder ==
    [][/\ (LockedLines(log_file') > LockedLines(log_file)) => lock_file
       /\ (incident_writes' > incident_writes) =>
             /\ lock_file
             /\ LockedLines(log_file) >= incident_writes'
       /\ (posts' > posts) =>
             /\ lock_file
             /\ incident_file # NoIncident
             /\ incident_file.state = "LOCKED"
             /\ incident_writes >= posts']_allVars

\* One transaction went through its lock transition and its POST was
\* attempted, while the other has not begun.
C25_Witness ==
    /\ \E p \in Procs : pc[p] = "done" /\ loc[p].decided
    /\ \E p \in Procs : pc[p] = "idle"
    /\ posts = 1
    /\ incident_writes = 1
    /\ lock_file

\* C26: notification is attempted at most once per lock transition and never
\* retried: every handler makes at most as many POST attempts as it makes
\* UNLOCKED->LOCKED transitions (one at most), also when the POST fails, and no
\* POST is made by analyze, by a record while locked, by unlock or by
\* clearHistory; so the POST attempts never outnumber the transitions.
C26_PostPerTransition ==
    [][/\ posts' >= posts
       /\ posts' - posts <= (IF ~lock_file /\ lock_file' THEN 1 ELSE 0)
       /\ (posts' > posts) => (last'.op = "record" /\ ~lock_file)
       /\ posts' <= incident_writes']_vars

\* Two lock transitions were made and notified; the POST of the second one
\* failed and was not tried again.
C26_Witness ==
    /\ last.op = "record"
    /\ last.post = "failed"
    /\ posts = 2
    /\ incident_writes = 2

\* C27: an analyze or recordAttempt call either returns a valid Status or
\* raises: if any storage write in the call fails (ledger, audit log, lock
\* marker, incident), the failure propagates out of the call and no Status is
\* returned for a state that could not be persisted.
C27_WriteFailurePropagates ==
    (last.op \in {"analyze", "record"}) =>
        /\ (failed_writes # {}) => (exc # "none" /\ last.report = "Raised")
        /\ (exc = "none") => status.state \in {"OK", "WARNING", "LOCKED"}

\* C29: the lock transition is all-or-nothing with respect to the incident
\* record: at the end of every recordAttempt call, whether it returns or
\* raises because a storage write failed midway, the lock marker created by
\* that call exists only if the incident record of that transition was
\* written.
C29_LockOnlyWithIncident ==
    [][(last'.op = "record" /\ ~lock_file /\ lock_file') =>
        /\ incident_writes' = incident_writes + 1
        /\ incident_file'.timestamp = clock']_allVars

\* C28: the log tail attached to a notification is bounded: it holds at most
\* the last include_last_lines lines of the audit log and at most its trailing
\* 1500 characters, and no tail section is added when include_last_lines <= 0
\* or the audit log is missing or empty.
C28_TailBounded ==
    (last.op = "notify") =>
        /\ snippet.attached =>
             /\ Len(snippet.lines) <= include_last_lines
             /\ Len(snippet.lines) <= Len(tail_log.lines)
             /\ \A i \in 1 .. Len(snippet.lines) :
                  snippet.lines[i] =
                    tail_log.lines[Len(tail_log.lines) - Len(snippet.lines) + i]
             /\ snippet.chars <= 1500
             /\ snippet.chars <= JoinedChars(snippet.lines)
        /\ (include_last_lines <= 0 \/ ~tail_log.exists \/ tail_log.lines = << >>)
             => ~snippet.attached

\* A tail of two lines out of three was attached and cut to 1500 characters.
C28_Witness ==
    /\ last.op = "notify"
    /\ snippet.attached
    /\ Len(tail_log.lines) = 3
    /\ Len(snippet.lines) = 2
    /\ JoinedChars(snippet.lines) > 1500
    /\ snippet.chars = 1500

\* C30: in the launcher's Manage Tools dialog, Cancel discards every staged
\* change: after Cancel, tools.json, the main tool list and the data a
\* reopened dialog shows (the tool dicts the launcher holds) are the same as
\* when the dialog was opened.
C30_CancelDiscardsStagedChanges ==
    (last.op = "cancel") =>
        /\ tools_json = opened.file
        /\ tools = opened.tools
        /\ tools_raw = opened.shown

\* A staged tool that lacks an id or a name, or whose type is not one of
\* python, exe, command.
FailsCheck(t) ==
    t.id = "" \/ t.name = "" \/ t.type \notin {"python", "exe", "command"}

\* C31: Save tools.json (commit) writes the file only if every staged tool has
\* a non-empty id, a non-empty name and a type in {python, exe, command}; when
\* a tool fails this check, tools.json, the tool list and the process table
\* are unchanged and the dialog stays open.
C31_SaveOnlyValid ==
    [][(last'.op = "save") =>
          LET ts == Values(tools_raw, data)
              failing == \E k \in 1 .. Len(ts) : FailsCheck(ts[k])
          IN  /\ failing => /\ UNCHANGED <<tools_json, tools, procs, alive>>
                            /\ win'
                            /\ last'.report = "Invalid"
              /\ (last'.report = "Saved" \/ tools_json' # tools_json)
                     => ~failing]_allVars

\* Save was refused while a process was tracked, and the dialog is still open.
C31_Witness ==
    /\ last.op = "save" /\ last.report = "Invalid"
    /\ win
    /\ DOMAIN procs # {}
    /\ \E k \in 1 .. Len(data) : FailsCheck(Deref(tools_raw, data[k]))

\* C32: the process table holds at most one process per tool id, the one
\* launched last under that id; a launch that fails (entry file missing for
\* python/exe, unknown tool type, spawn error) starts no process and leaves
\* the process table unchanged.
C32_LatestPerIdFailedLaunchKeepsTable ==
    [][/\ \A tid \in DOMAIN procs' : procs'[tid] = latest'[tid]
       /\ (last'.op = "launch" /\ selection # 0) =>
             LET t == tools[selection]
                 failed ==
                     \/ t.type \in {"python", "exe"} /\ t.entry \notin entry_files
                     \/ t.type \notin {"python", "exe", "command"}
                     \/ last'.report = "SpawnError"
             IN  failed => UNCHANGED <<procs, alive, spawned>>]_allVars

\* A launch has just failed while the table tracks a process that replaced an
\* earlier one under the same id.
C32_Witness ==
    /\ last.op = "launch"
    /\ last.report \in {"Entry script not found", "Executable not found",
                        "Unknown tool type", "SpawnError"}
    /\ \E tid \in DOMAIN procs : procs[tid] >= 2 /\ procs[tid] \in alive

\* The state is the one a run of _tick_processes left.
AfterTick ==
    last.op = "tick" \/ (last.op = "launch" /\ last.report = "Launched")

\* The process tracked under the id of row k has not exited.
TrackedRunning(k) ==
    tools[k].id \in DOMAIN procs /\ procs[tools[k].id] \in alive

\* A process was started under the id of row k, and the last one has exited.
HasExited(k) ==
    tools[k].id \in DOMAIN latest /\ latest[tools[k].id] \notin alive

\* C33 as stated: after every _tick_processes run the process table contains
\* no exited process, a tool is shown Running exactly when the process tracked
\* under its id has not exited, and a tool whose process has exited is shown
\* Ready or Missing by whether its entry exists.
C33_TickStatus ==
    AfterTick =>
        /\ \A tid \in DOMAIN procs : procs[tid] \in alive
        /\ \A k \in 1 .. Len(tools) :
             /\ (tree_status[k] = "Running") <=> TrackedRunning(k)
             /\ HasExited(k) =>
                  tree_status[k] = IF tools[k].entry \in entry_files
                                   THEN "Ready" ELSE "Missing"

\* C33, amended: after every _tick_processes run the process table contains
\* no exited process, a tool is shown Running exactly when the process tracked
\* under its id has not exited, and a tool whose process has exited is shown
\* Ready or Missing by whether its entry exists when its type is python or
\* exe, Ready when its type is command, and "?" for any other type.
C33_TickStatusByType ==
    AfterTick =>
        /\ \A tid \in DOMAIN procs : procs[tid] \in alive
        /\ \A k \in 1 .. Len(tools) :
             /\ (tree_status[k] = "Running") <=> TrackedRunning(k)
             /\ HasExited(k) =>
                  tree_status[k] =
                      CASE tools[k].type \in {"python", "exe"} ->
                               IF tools[k].entry \in entry_files
                               THEN "Ready" ELSE "Missing"
                        [] tools[k].type = "command" -> "Ready"
                        [] OTHER -> "?"

\* After a poll, a command whose process has exited and whose entry is no
\* file on disk is shown Ready.
C33_Witness ==
    /\ last.op = "tick"
    /\ \E k \in 1 .. Len(tools) :
         /\ tools[k].type = "command"
         /\ HasExited(k)
         /\ tools[k].entry \notin entry_files
         /\ tree_status[k] = "Ready"

\* C34: the launcher keeps a single periodic poll: in every reachable state at
\* most one _tick_processes timer is pending, whatever number of tools has
\* been launched.
C34_SinglePollTimer == timers <= 1

====
